---- MODULE Spec2Model ----
(***************************************************************************)
(* Model of the auth-frontend-svelte library: the Firebase auth service    *)
(* (src/lib/firebase.ts, in its base and its extended revision), the error *)
(* normalizer, and the presentational forms that call the service.         *)
(*                                                                         *)
(* An async function is split at its awaits: one action runs a handler     *)
(* from its start to its first await, and one action (SdkSettle) runs the  *)
(* continuation of a settled SDK promise up to the next await.             *)
(***************************************************************************)
EXTENDS Integers, Sequences, FiniteSets, TLC

\* ---------------------------------------------------------------- bounds
\* number of initFirebaseAuth calls the application makes
MaxInit == 2
\* number of facade calls the application has outstanding at a time
MaxCalls == 1

\* ------------------------------------------------------------- constants
Null == "null"
Undefined == "undefined"
NoError == "null"

\* the two revisions of src/lib/firebase.ts
Variants == {"base", "extended"}

\* AuthOptions.persistence: 'local' | 'session' | 'none' | absent
PersistenceOptions == {"local", "session", "none", "absent"}

\* ------------------------------------------------------ error normalizer
\* the static table of getUserFriendlyMessage in the base revision
BaseMessages ==
    [c \in {"auth/email-already-in-use", "auth/invalid-email",
            "auth/operation-not-allowed", "auth/weak-password",
            "auth/user-disabled", "auth/user-not-found",
            "auth/wrong-password", "auth/invalid-credential",
            "auth/too-many-requests", "auth/network-request-failed",
            "auth/popup-closed-by-user", "auth/expired-action-code",
            "auth/invalid-action-code", "auth/requires-recent-login"} |->
        CASE c = "auth/email-already-in-use" -> "This email is already registered"
          [] c = "auth/invalid-email" -> "Please enter a valid email address"
          [] c = "auth/operation-not-allowed" -> "This operation is not allowed"
          [] c = "auth/weak-password" -> "Password should be at least 6 characters"
          [] c = "auth/user-disabled" -> "This account has been disabled"
          [] c = "auth/user-not-found" -> "No account found with this email"
          [] c = "auth/wrong-password" -> "Incorrect email or password"
          [] c = "auth/invalid-credential" -> "Invalid email or password"
          [] c = "auth/too-many-requests" -> "Too many attempts. Please try again later"
          [] c = "auth/network-request-failed" -> "Network error. Please check your connection"
          [] c = "auth/popup-closed-by-user" -> "Sign-in cancelled"
          [] c = "auth/expired-action-code" -> "This link has expired"
          [] c = "auth/invalid-action-code" -> "Invalid or expired link"
          [] c = "auth/requires-recent-login" -> "Please sign in again to continue"]

\* the three entries the extended revision adds
ExtendedMessages ==
    [c \in DOMAIN BaseMessages \cup
           {"auth/multi-factor-auth-required", "auth/invalid-verification-code",
            "auth/unverified-email"} |->
        IF c \in DOMAIN BaseMessages THEN BaseMessages[c]
        ELSE CASE c = "auth/multi-factor-auth-required" ->
                      "Please verify your identity with a second factor"
               [] c = "auth/invalid-verification-code" ->
                      "Invalid verification code. Please try again"
               [] c = "auth/unverified-email" ->
                      "Please verify your email address first"]

\* const messages: Record<string, string> = {...} of revision v
messages(v) == IF v = "base" THEN BaseMessages ELSE ExtendedMessages

\* members every object literal inherits from Object.prototype; a lookup
\* messages[code] with one of these names yields the inherited member
ObjectPrototypeMembers ==
    {"constructor", "toString", "valueOf", "hasOwnProperty", "__proto__"}

\* messages[code]: own entry, inherited member, or undefined
Lookup(v, code) ==
    IF code \in DOMAIN messages(v) THEN messages(v)[code]
    ELSE IF code \in ObjectPrototypeMembers THEN "[inherited " \o code \o "]"
    ELSE Undefined

\* a || b for string operands: undefined and "" are falsy
OrElse(a, b) == IF a = Undefined \/ a = "" THEN b ELSE a

getUserFriendlyMessage_AlwaysDefault(v, code, defaultMessage) == defaultMessage

\* return messages[code] || defaultMessage
getUserFriendlyMessage(v, code, defaultMessage) ==
    OrElse(Lookup(v, code), defaultMessage)

\* Values the SDK (or the runtime under it) can throw, by identity.
\*   hasCode/hasMessage: 'code' in error, 'message' in error
\*   isError: error instanceof Error
\* E_mfa is the MultiFactorError of a sign-in that needs a second factor;
\* the SDK makes the resolver from it (getMultiFactorResolver(auth, error)),
\* the error object has no resolver property
SdkErrIds == {"E_notfound", "E_internal", "E_mfa", "E_type", "E_string"}

SdkErr(id) ==
    CASE id = "E_notfound" ->
           [hasCode |-> TRUE, code |-> "auth/user-not-found",
            message |-> "Firebase: Error (auth/user-not-found).", isError |-> TRUE]
      [] id = "E_internal" ->
           [hasCode |-> TRUE, code |-> "auth/internal-error",
            message |-> "Firebase: Error (auth/internal-error).", isError |-> TRUE]
      [] id = "E_mfa" ->
           [hasCode |-> TRUE, code |-> "auth/multi-factor-auth-required",
            message |-> "Firebase: Error (auth/multi-factor-auth-required).",
            isError |-> TRUE]
      [] id = "E_type" ->
           [hasCode |-> FALSE, code |-> Undefined,
            message |-> "Failed to fetch", isError |-> TRUE]
      [] id = "E_string" ->
           [hasCode |-> FALSE, code |-> Undefined,
            message |-> Undefined, isError |-> FALSE]

\* A value a facade call rejects with / a handler catches.  self is the
\* identity of the object when it is an SDK-thrown value, "new" otherwise.
\* resolver is what reading  error.resolver  yields.
NoThrown == [code |-> "-", message |-> "-", originalError |-> "-", self |-> "-",
             resolver |-> "-"]

\* normalizeError(error): {code, message, originalError}
normalizeError(v, id) ==
    IF SdkErr(id).hasCode
    THEN [code |-> SdkErr(id).code,
          message |-> getUserFriendlyMessage(v, SdkErr(id).code, SdkErr(id).message),
          originalError |-> id, self |-> "new", resolver |-> Undefined]
    ELSE [code |-> "unknown",
          message |-> IF SdkErr(id).isError THEN SdkErr(id).message
                      ELSE "An unknown error occurred",
          originalError |-> id, self |-> "new", resolver |-> Undefined]

\* the SDK's value propagating unchanged out of an async function
Rethrown(id) ==
    [code |-> SdkErr(id).code, message |-> SdkErr(id).message,
     originalError |-> Undefined, self |-> id, resolver |-> Undefined]

\* new Error(msg)
NewError(msg) ==
    [code |-> Undefined, message |-> msg, originalError |-> Undefined, self |-> "new",
     resolver |-> Undefined]

NotInitializedMessage == "Firebase Auth not initialized. Call initFirebaseAuth() first."


\* ----------------------------------------------------------------- state
VARIABLES
    variant,        \* which revision of firebase.ts is built
    firebaseApp,    \* let firebaseApp: FirebaseApp | null
    auth,           \* let auth: Auth | null
    appInits,       \* initFirebaseAuth calls made by the application
    initAppCalls,   \* invocations of the SDK's initializeApp
    getAuthCalls,   \* invocations of the SDK's getAuth
    persistence,    \* persistence type of the latest setPersistence request
    optionsPersistence, \* options.persistence of the latest initFirebaseAuth call
    persistenceStatus,  \* that request: "none" | "pending" | "set" | "failed"
    listeners,      \* callbacks registered through onAuthStateChanged
    services,       \* {app, auth} of every AuthService object returned so far
    getOutcomes,    \* how the getAuthService calls made so far ended
    currentUser,    \* auth.currentUser
    lastNotified,   \* callback invocations caused by the latest auth state change
    calls,          \* facade calls and handler invocations, in start order
    code,           \* argument of the getUserFriendlyMessage call under test
    defaultMessage, \* its second argument
    friendly        \* what the call returned ("unset" before it ran)

\* the arguments and the result of the message lookup
lookup == <<code, defaultMessage, friendly>>

\* let firebaseApp = null / let auth = null
NullHandle == 0
\* let verificationId = "" (MfaSetupForm) / null (MfaChallengeForm)
NoVerificationId == 0
NoUser == "null"

svars == <<firebaseApp, auth, initAppCalls, getAuthCalls, persistence,
           optionsPersistence, persistenceStatus, listeners, services>>

\* the persistence option ignored
PersistenceType_Local(p) == "browserLocalPersistence"

\* const persistenceType = options.persistence === 'session' ? ... : ...
PersistenceType(p) ==
    IF p = "session" THEN "browserSessionPersistence"
    ELSE IF p = "none" THEN "inMemoryPersistence"
    ELSE "browserLocalPersistence"

\* the body of initFirebaseAuth with both "if not already done" tests dropped
initFirebaseAuth_Reinit(p, cb) ==
    /\ firebaseApp' = initAppCalls + 1
    /\ initAppCalls' = initAppCalls + 1
    /\ auth' = firebaseApp'
    /\ getAuthCalls' = getAuthCalls + 1
    /\ persistence' = PersistenceType(p)
    /\ optionsPersistence' = p
    /\ persistenceStatus' = "pending"
    /\ listeners' = IF cb THEN listeners + 1 ELSE listeners
    /\ services' = services \cup {[app |-> firebaseApp', auth |-> auth']}

\* initFirebaseAuth(options): p is options.persistence, cb tells whether
\* options.onAuthStateChanged is given.  initializeApp returns a fresh app;
\* getAuth(app) returns the Auth instance of that app.
initFirebaseAuth(p, cb) ==
    /\ firebaseApp' = IF firebaseApp = NullHandle THEN initAppCalls + 1 ELSE firebaseApp
    /\ initAppCalls' = IF firebaseApp = NullHandle THEN initAppCalls + 1 ELSE initAppCalls
    /\ auth' = IF auth = NullHandle THEN firebaseApp' ELSE auth
    /\ getAuthCalls' = IF auth = NullHandle THEN getAuthCalls + 1 ELSE getAuthCalls
    /\ persistence' = PersistenceType(p)
    /\ optionsPersistence' = p
    /\ persistenceStatus' = "pending"
    /\ listeners' = IF cb THEN listeners + 1 ELSE listeners
    /\ services' = services \cup {[app |-> firebaseApp', auth |-> auth']}

NotInitialized_Never == FALSE

\* if (!firebaseApp || !auth)
NotInitialized == firebaseApp = NullHandle \/ auth = NullHandle

\* getAuthService(): throws before initialization; afterwards the base
\* revision builds a facade over the module's handles and the extended one
\* calls initFirebaseAuth({config, persistence: 'local'})
getAuthService ==
    IF NotInitialized
    THEN /\ getOutcomes' = getOutcomes \cup {"threw"}
         /\ UNCHANGED svars
    ELSE /\ getOutcomes' = getOutcomes \cup {"returned"}
         /\ IF variant = "base"
            THEN /\ services' = services \cup {[app |-> firebaseApp, auth |-> auth]}
                 /\ UNCHANGED <<firebaseApp, auth, initAppCalls, getAuthCalls,
                                persistence, optionsPersistence, persistenceStatus,
                                listeners>>
            ELSE initFirebaseAuth("local", FALSE)

\* ---------------------------------------------------------------- facade
BaseOps == {"signIn", "register", "signOut", "sendPasswordReset",
            "confirmPasswordReset", "sendEmailVerification", "reloadUser"}
ExtendedOps == BaseOps \cup {"generateTotpSecret", "enrollTotp", "unenrollMfa"}
FacadeOps(v) == IF v = "base" THEN BaseOps ELSE ExtendedOps

\* no operation tests auth.currentUser
NeedsUser_Never(op) == FALSE

\* operations that start with  if (!auth?.currentUser) throw new Error(...)
NeedsUser(op) ==
    op \in {"sendEmailVerification", "reloadUser", "generateTotpSecret", "enrollTotp",
            "unenrollMfa"}

\* the SDK function a facade operation awaits first
FirstSdk(op) ==
    CASE op = "signIn" -> "signInWithEmailAndPassword"
      [] op = "register" -> "createUserWithEmailAndPassword"
      [] op = "signOut" -> "signOut"
      [] op = "sendPasswordReset" -> "sendPasswordResetEmail"
      [] op = "confirmPasswordReset" -> "confirmPasswordReset"
      [] op = "sendEmailVerification" -> "sendEmailVerification"
      [] op = "reloadUser" -> "reload"
      [] op = "generateTotpSecret" -> "generateSecret"
      [] op = "enrollTotp" -> "enroll"
      [] op = "unenrollMfa" -> "unenroll"

SdkFunctions == {FirstSdk(op) : op \in ExtendedOps} \cup {"updateProfile"}

\* the SDK function awaited after f resolved inside the same facade
\* operation; "none" when the operation returns.  register:
\*   if (data.displayName && userCredential.user) await updateProfile(...)
NextSdk(f, dn) ==
    IF f = "createUserWithEmailAndPassword" /\ dn # "" /\ dn # Undefined
    THEN "updateProfile" ELSE "none"

\* whether the facade obtained through src catches and normalizes: the
\* methods of initFirebaseAuth do; those getAuthService builds in the base
\* revision call the SDK with no try/catch
Normalizes(src) == src = "init" \/ variant = "extended"

\* what a facade operation rejects with when its SDK call rejected with id
Rejection(src, id) ==
    IF Normalizes(src) THEN normalizeError(variant, id) ELSE Rethrown(id)

\* auth.currentUser after SDK function f resolved
UserAfter(f, u) ==
    IF f \in {"signInWithEmailAndPassword", "createUserWithEmailAndPassword"}
    THEN "user"
    ELSE IF f = "signOut" THEN NoUser ELSE u

\* a call record: one facade call made by the application (owner "app") or
\* one handler invocation of the mounted form (owner "form").
\*   pc       "done", or the asynchronous function the call is awaiting
\*   facade   the facade operations it invoked, sdk the SDK functions
\*   outcome  pending | resolved | rejected | threw | invalid
\*   thrown   what it rejected with (or what its handler caught)
\*   sdkErr   identity of the value the SDK rejected with
\*   dn       data.displayName passed to register
\*   email, pwlen, mismatch   the fields' values when the handler started
\*   events   what the handler dispatched, in order
\*   factor, vid   the factor and the verification id an MFA handler used
\*   hint     index in resolver.hints of the hint an MFA handler used
\*   user     auth.currentUser as the guard of the facade operation (or
\*            getCurrentUser) read it
\*   result   what a synchronous facade operation returned
\*   secret, code   the arguments passed to enrollTotp
\*   retry    whether an error message was showing when the handler started
\*   navAt    how many events the handler had dispatched when it navigated
\*            (or set the timer that navigates); -1 when it did not
NewCall(owner, op, src, dn, em, pwlen, mismatch) ==
    [owner |-> owner, op |-> op, src |-> src, pc |-> "start",
     facade |-> <<>>, sdk |-> <<>>, outcome |-> "pending", thrown |-> NoThrown,
     sdkErr |-> "none", dn |-> dn, email |-> em, pwlen |-> pwlen,
     mismatch |-> mismatch, events |-> <<>>, factor |-> "-", vid |-> 0,
     retry |-> FALSE, navAt |-> -1, hint |-> 0, user |-> "-", result |-> "-",
     secret |-> Null, code |-> ""]

\* the call record after invoking facade operation op on it, with module
\* handle a and current user: the operation rejects at once on its guard
\* (if (!auth) throw ..., if (!auth?.currentUser) throw ...), otherwise it
\* awaits its first SDK call
Invoke(c, op, a, user) ==
    IF ~NeedsUser(op) /\ a = NullHandle
    THEN [c EXCEPT !.facade = Append(@, op), !.pc = "done",
                   !.outcome = "rejected", !.thrown = NewError("Auth not initialized")]
    ELSE IF NeedsUser(op) /\ (a = NullHandle \/ user = NoUser)
    THEN [c EXCEPT !.facade = Append(@, op), !.pc = "done", !.user = user,
                   !.outcome = "rejected", !.thrown = NewError("No user signed in")]
    ELSE [c EXCEPT !.facade = Append(@, op), !.pc = FirstSdk(op),
                   !.user = IF op \in {"signIn", "register", "signOut",
                                       "sendPasswordReset", "confirmPasswordReset"}
                            THEN @ ELSE user,
                   !.sdk = Append(@, FirstSdk(op))]

\* getCurrentUser():  if (!auth) return null; return auth.currentUser
\* (base revision of getAuthService:  auth?.currentUser || null)
getCurrentUser(a, user) == IF a = NullHandle THEN Null ELSE OrElse(user, Null)


\* the call record after the SDK function it awaits settled with o ("ok" or
\* the identity of the rejection): the facade operation rejects, awaits its
\* next SDK call, or resolves (pc "return")
Advance(c, o) ==
    IF o # "ok"
    THEN [c EXCEPT !.pc = "done", !.outcome = "rejected",
                   !.thrown = Rejection(c.src, o), !.sdkErr = o]
    ELSE IF NextSdk(c.pc, c.dn) # "none"
    THEN [c EXCEPT !.pc = NextSdk(c.pc, c.dn), !.sdk = Append(@, NextSdk(c.pc, c.dn))]
    ELSE [c EXCEPT !.pc = "return"]

IsPending(c) == c.outcome = "pending"
StillHeld(c, owner) == c.owner # owner \/ IsPending(c)

\* calls without the settled calls of owner: a settled call is kept until
\* its owner starts the next one
Started(owner, c) ==
    LET Keep(x) == StillHeld(x, owner) IN Append(SelectSeq(calls, Keep), c)

Outstanding(owner) == {i \in 1..Len(calls) : calls[i].owner = owner /\ IsPending(calls[i])}


\* ------------------------------------------------------ the mounted form
VARIABLES
    form,               \* which form the page has mounted ("none" before)
    redirectOnSuccess,  \* prop
    requireDisplayName, \* prop of RegisterForm
    mounted,            \* whether the form's onMount callback has run
    email, password, newPassword, confirmPassword, displayName,
    verificationCode,   \* the bound input fields
    loading, finalizing, error, success,
    totpSecret, qrCodeDataUrl,
    redirect,           \* "none" | "scheduled" (setTimeout pending) | "done"
    setupMode,          \* MfaSetupForm: selection | phone | totp | success
    codeSent,           \* MfaSetupForm: the SMS code was sent
    sendingCode,        \* MfaChallengeForm: handleSendPhoneCode is running
    verificationId,     \* id the last verifyPhoneNumber returned (NoVerificationId: "" / null)
    recaptchaVerifier,  \* whether the component holds a RecaptchaVerifier
    recaptchaTimer,     \* whether setTimeout(initRecaptcha, 0) is pending
    hints,              \* resolver.hints: the factorId of each enrolled factor
    localSelectedIndex, \* MfaChallengeForm: index of the selected hint
    smsSent,            \* verification ids the SDK has issued (verifyPhoneNumber)
    enrolled,           \* second factors enrolled through the mounted component
    outer               \* MfaSetupForm's own <<error, verificationCode>> while
                        \* its MfaTotpSetupForm child is shown

inputs == <<email, password, newPassword, confirmPassword, displayName, verificationCode>>
props == <<form, redirectOnSuccess, requireDisplayName>>
totpState == <<mounted, finalizing, totpSecret, qrCodeDataUrl>>
mfaState == <<setupMode, codeSent, sendingCode, verificationId, recaptchaVerifier,
              recaptchaTimer, hints, localSelectedIndex, smsSent, enrolled, outer>>
fvars == <<props, inputs, totpState, mfaState, loading, error, success, redirect>>
appvars == <<variant, lookup, appInits, currentUser, lastNotified>>

\* the call record of a handler invocation of the mounted form
FormCall(op, src, dn, em, pwlen, mismatch) ==
    [NewCall("form", op, src, dn, em, pwlen, mismatch) EXCEPT !.retry = (error # NoError)]

Forms == {"login", "register", "forgot", "reset", "totp"}
Emails == {"a@x.io", "b@x.io"}
Passwords == {"abc", "abcde", "abcdef", "hunter22"}
DisplayNames == {"Ann"}
Codes == {"12345", "123456"}

\* password.length < 6
MinPasswordLength == 6

PasswordTooShort_Off(pw) == FALSE

\* if (password.length < 6)  (RegisterForm, ResetPasswordForm)
PasswordTooShort(pw) == Len(pw) < MinPasswordLength

PasswordsDiffer_Off(pw, cpw) == FALSE

\* if (password !== confirmPassword)  (RegisterForm, ResetPasswordForm)
PasswordsDiffer(pw, cpw) == pw # cpw

Last(q) == q[Len(q)]

ErrorEvent(t) == [type |-> "error", email |-> "", error |-> t]
SuccessEvent(em) == [type |-> "success", email |-> em, error |-> NoThrown]

\* the error getAuthService() throws escaping the handler's catch
Threw_Uncaught(c) == c

\* getAuthService() threw inside the handler's try
Threw(c) ==
    [c EXCEPT !.pc = "done", !.outcome = "threw",
              !.thrown = NewError(NotInitializedMessage)]

\* a catch block that dispatches nothing
Caught_Silent(c) == [c EXCEPT !.pc = "done"]

\* catch (err) { ...; dispatch("error", { error: err }) }
Caught(c) == [c EXCEPT !.pc = "done", !.events = Append(@, ErrorEvent(c.thrown))]

\* the handler ran to its end after its last facade operation resolved
Resolved(c, ev) ==
    [c EXCEPT !.pc = "done", !.outcome = "resolved", !.events = @ \o ev]

\* if (redirectOnSuccess && typeof window !== "undefined") with the
\* condition dropped
Redirecting_Always(c) == [c EXCEPT !.navAt = Len(c.events)]

\* if (redirectOnSuccess && typeof window !== "undefined")
\*     window.location.href = redirectUrl     (or setTimeout(...))
Redirecting(c) == IF redirectOnSuccess THEN [c EXCEPT !.navAt = Len(c.events)] ELSE c

\* a validation branch returned before the try block
Invalid(c) == [c EXCEPT !.pc = "done", !.outcome = "invalid"]

\* the handler returned at an early  return  of its own, before any
\* assignment
Returned(c) == [c EXCEPT !.pc = "done", !.outcome = "returned"]

\* effect of SDK function f settling with o on auth.currentUser, and the
\* listeners the SDK then notifies
SdkEffect(f, o) ==
    /\ currentUser' = IF o = "ok" THEN UserAfter(f, currentUser) ELSE currentUser
    /\ lastNotified' = IF currentUser' # currentUser THEN listeners ELSE lastNotified

\* the page mounts form f with props ros (redirectOnSuccess) and rdn
\* (requireDisplayName); the TOTP form calls getAuthService() while it is
\* constructed, which throws before initialization
Mount(f, ros, rdn) ==
    /\ form = "none"
    /\ f = "totp" => variant = "extended"
    /\ f \notin {"login", "register", "reset"} => ros
    /\ f # "register" => rdn
    /\ IF f = "totp" THEN getAuthService ELSE UNCHANGED <<svars, getOutcomes>>
    /\ IF f = "totp" /\ NotInitialized
       THEN UNCHANGED fvars
       ELSE /\ form' = f
            /\ redirectOnSuccess' = ros
            /\ requireDisplayName' = rdn
            /\ loading' = (f = "totp")
            /\ UNCHANGED <<inputs, totpState, mfaState, error, success, redirect>>
    /\ UNCHANGED <<appvars, calls>>

\* whether the inputs of the mounted form accept typing: disabled={loading},
\* and ForgotPassword/ResetPassword replace the form by the success panel
Editable == ~loading /\ ~success /\ redirect # "done"

EditEmail(v) ==
    /\ form \in {"login", "register", "forgot"}
    /\ Editable
    /\ email' = v
    /\ UNCHANGED <<svars, getOutcomes, appvars, calls, props, mfaState, totpState, loading,
                   error, success, redirect, password, newPassword,
                   confirmPassword, displayName, verificationCode>>

EditPassword(v) ==
    /\ form \in {"login", "register"}
    /\ Editable
    /\ password' = v
    /\ UNCHANGED <<svars, getOutcomes, appvars, calls, props, mfaState, totpState, loading,
                   error, success, redirect, email, newPassword,
                   confirmPassword, displayName, verificationCode>>

EditNewPassword(v) ==
    /\ form = "reset"
    /\ Editable
    /\ newPassword' = v
    /\ UNCHANGED <<svars, getOutcomes, appvars, calls, props, mfaState, totpState, loading,
                   error, success, redirect, email, password,
                   confirmPassword, displayName, verificationCode>>

EditConfirmPassword(v) ==
    /\ form \in {"register", "reset"}
    /\ Editable
    /\ confirmPassword' = v
    /\ UNCHANGED <<svars, getOutcomes, appvars, calls, props, mfaState, totpState, loading,
                   error, success, redirect, email, password,
                   newPassword, displayName, verificationCode>>

EditDisplayName(v) ==
    /\ form = "register"
    /\ requireDisplayName
    /\ Editable
    /\ displayName' = v
    /\ UNCHANGED <<svars, getOutcomes, appvars, calls, props, mfaState, totpState, loading,
                   error, success, redirect, email, password,
                   newPassword, confirmPassword, verificationCode>>

\* MfaTotpSetupForm is on the page: mounted by the page, or rendered by
\* MfaSetupForm ({:else if setupMode === "totp"})
TotpShown == form = "totp" \/ (form = "mfaSetup" /\ setupMode = "totp")

\* resolver.hints[localSelectedIndex].factorId === "phone"
IsPhone == hints[localSelectedIndex] = "phone"

\* the code input.  MfaTotpSetupForm: rendered once the secret is there,
\* disabled={finalizing}; MfaSetupForm: rendered once the code was sent,
\* disabled={loading}; MfaChallengeForm: rendered unless the selected phone
\* factor has no verification id yet, disabled={loading}
EditVerificationCode(v) ==
    /\ \/ TotpShown /\ ~loading /\ totpSecret # Null /\ ~finalizing
       \/ form = "mfaSetup" /\ setupMode = "phone" /\ codeSent /\ ~loading
       \/ form = "mfaChallengeEarlier" /\ ~loading
       \/ form = "mfaChallenge" /\ mounted /\ ~loading
             /\ (IsPhone => verificationId # NoVerificationId)
    /\ verificationCode' = v
    /\ UNCHANGED <<svars, getOutcomes, appvars, calls, props, mfaState, totpState, loading,
                   error, success, redirect, email, password,
                   newPassword, confirmPassword, displayName>>


\* -------------------------------------------------------------- LoginForm
\* handleSubmit without  error = null
LoginHandleSubmit_KeepError ==
    /\ getAuthService
    /\ LET c == FormCall("login", "get", Undefined, email, Len(password), FALSE)
           c1 == IF NotInitialized THEN Threw(c)
                 ELSE Invoke(c, "signIn", auth', currentUser)
       IN IF IsPending(c1)
          THEN /\ calls' = Started("form", c1)
               /\ loading' = TRUE
               /\ UNCHANGED error
          ELSE /\ calls' = Started("form", Caught(c1))
               /\ error' = c1.thrown.message
               /\ loading' = FALSE
    /\ UNCHANGED <<appvars, props, mfaState, inputs, totpState, success, redirect>>

\* handleSubmit up to its first await
LoginHandleSubmit ==
    /\ getAuthService
    /\ LET c == FormCall("login", "get", Undefined, email, Len(password), FALSE)
           c1 == IF NotInitialized THEN Threw(c)
                 ELSE Invoke(c, "signIn", auth', currentUser)
       IN IF IsPending(c1)
          THEN /\ calls' = Started("form", c1)
               /\ loading' = TRUE
               /\ error' = NoError
          ELSE /\ calls' = Started("form", Caught(c1))
               /\ error' = c1.thrown.message
               /\ loading' = FALSE
    /\ UNCHANGED <<appvars, props, mfaState, inputs, totpState, success, redirect>>

\* the submit button (disabled={loading}); both inputs are required
LoginSubmit ==
    /\ form = "login"
    /\ ~loading /\ redirect # "done"
    /\ email # "" /\ password # ""
    /\ LoginHandleSubmit

\* a timeout in place of the continuation: loading is reset, the call is
\* left waiting
LoginSettle_Timeout(i, o) ==
    /\ i \in Outstanding("form")
    /\ calls[i].op = "login"
    /\ loading
    /\ loading' = FALSE
    /\ UNCHANGED <<svars, getOutcomes, appvars, calls, props, mfaState, inputs,
                   totpState, error, success, redirect>>

\* loading is reset only by the last outstanding submission
LoginSettle_WhenLast(i, o) ==
    /\ i \in Outstanding("form")
    /\ calls[i].op = "login"
    /\ calls[i].pc \in SdkFunctions
    /\ SdkEffect(calls[i].pc, o)
    /\ LET c1 == Advance(calls[i], o) IN
       IF c1.pc = "return"
       THEN /\ calls' = [calls EXCEPT ![i] = Redirecting(Resolved(c1, <<SuccessEvent(email)>>))]
            /\ redirect' = IF redirectOnSuccess THEN "done" ELSE redirect
            /\ UNCHANGED error
       ELSE /\ calls' = [calls EXCEPT ![i] = Caught(c1)]
            /\ error' = c1.thrown.message
            /\ UNCHANGED redirect
    /\ loading' = (Cardinality(Outstanding("form")) > 1)
    /\ UNCHANGED <<variant, lookup, appInits, svars, getOutcomes, props, mfaState,
                   inputs, totpState, success>>

LoginSettle_NoFinally(i, o) ==
    /\ i \in Outstanding("form")
    /\ calls[i].op = "login"
    /\ calls[i].pc \in SdkFunctions
    /\ SdkEffect(calls[i].pc, o)
    /\ LET c1 == Advance(calls[i], o) IN
       IF c1.pc = "return"
       THEN /\ calls' = [calls EXCEPT ![i] = Redirecting(Resolved(c1, <<SuccessEvent(email)>>))]
            /\ redirect' = IF redirectOnSuccess THEN "done" ELSE redirect
            /\ loading' = FALSE
            /\ UNCHANGED error
       ELSE /\ calls' = [calls EXCEPT ![i] = Caught(c1)]
            /\ error' = c1.thrown.message
            /\ UNCHANGED <<redirect, loading>>
    /\ UNCHANGED <<variant, lookup, appInits, svars, getOutcomes, props, mfaState, inputs,
                   totpState, success>>

\* handleSubmit after signIn settled: dispatch success and redirect, or
\* catch; finally loading = false
LoginSettle(i, o) ==
    /\ i \in Outstanding("form")
    /\ calls[i].op = "login"
    /\ calls[i].pc \in SdkFunctions
    /\ SdkEffect(calls[i].pc, o)
    /\ LET c1 == Advance(calls[i], o) IN
       IF c1.pc = "return"
       THEN /\ calls' = [calls EXCEPT ![i] = Redirecting(Resolved(c1, <<SuccessEvent(email)>>))]
            /\ redirect' = IF redirectOnSuccess THEN "done" ELSE redirect
            /\ UNCHANGED error
       ELSE /\ calls' = [calls EXCEPT ![i] = Caught(c1)]
            /\ error' = c1.thrown.message
            /\ UNCHANGED redirect
    /\ loading' = FALSE
    /\ UNCHANGED <<variant, lookup, appInits, svars, getOutcomes, props, mfaState, inputs,
                   totpState, success>>

\* ----------------------------------------------------- ForgotPasswordForm
ForgotHandleSubmit ==
    /\ getAuthService
    /\ LET c == FormCall("forgot", "get", Undefined, email, 0, FALSE)
           c1 == IF NotInitialized THEN Threw(c)
                 ELSE Invoke(c, "sendPasswordReset", auth', currentUser)
       IN IF IsPending(c1)
          THEN /\ calls' = Started("form", c1)
               /\ loading' = TRUE
               /\ error' = NoError
          ELSE /\ calls' = Started("form", Caught(c1))
               /\ error' = c1.thrown.message
               /\ loading' = FALSE
    /\ UNCHANGED <<appvars, props, mfaState, inputs, totpState, success, redirect>>

\* the submit button (disabled={loading}) of the form, which the success
\* panel replaces; the input is required
ForgotSubmit ==
    /\ form = "forgot"
    /\ ~loading /\ ~success
    /\ email # ""
    /\ ForgotHandleSubmit

ForgotSettle(i, o) ==
    /\ i \in Outstanding("form")
    /\ calls[i].op = "forgot"
    /\ calls[i].pc \in SdkFunctions
    /\ SdkEffect(calls[i].pc, o)
    /\ LET c1 == Advance(calls[i], o) IN
       IF c1.pc = "return"
       THEN /\ calls' = [calls EXCEPT ![i] = Resolved(c1, <<SuccessEvent(email)>>)]
            /\ success' = TRUE
            /\ UNCHANGED error
       ELSE /\ calls' = [calls EXCEPT ![i] = Caught(c1)]
            /\ error' = c1.thrown.message
            /\ UNCHANGED success
    /\ loading' = FALSE
    /\ UNCHANGED <<variant, lookup, appInits, svars, getOutcomes, props, mfaState, inputs,
                   totpState, redirect>>

\* ------------------------------------------------------ ResetPasswordForm
\* handleSubmit with its two validation checks in the other order
ResetHandleSubmit_LengthFirst ==
    /\ LET c == FormCall("reset", "get", Undefined, "", Len(newPassword),
                        newPassword # confirmPassword)
       IN IF PasswordTooShort(newPassword)
          THEN /\ error' = "Password must be at least 6 characters"
               /\ loading' = FALSE
               /\ calls' = Started("form", Invalid(c))
               /\ UNCHANGED <<svars, getOutcomes>>
          ELSE IF PasswordsDiffer(newPassword, confirmPassword)
          THEN /\ error' = "Passwords do not match"
               /\ loading' = FALSE
               /\ calls' = Started("form", Invalid(c))
               /\ UNCHANGED <<svars, getOutcomes>>
          ELSE /\ getAuthService
               /\ LET c1 == IF NotInitialized THEN Threw(c)
                            ELSE Invoke(c, "confirmPasswordReset", auth', currentUser)
                  IN IF IsPending(c1)
                     THEN /\ calls' = Started("form", c1)
                          /\ loading' = TRUE
                          /\ error' = NoError
                     ELSE /\ calls' = Started("form", Caught(c1))
                          /\ error' = c1.thrown.message
                          /\ loading' = FALSE
    /\ UNCHANGED <<appvars, props, mfaState, inputs, totpState, success, redirect>>

\* handleSubmit up to its first await: validation, getAuthService(),
\* authService.confirmPasswordReset(oobCode, newPassword)
ResetHandleSubmit ==
    /\ LET c == FormCall("reset", "get", Undefined, "", Len(newPassword),
                        newPassword # confirmPassword)
       IN IF PasswordsDiffer(newPassword, confirmPassword)
          THEN /\ error' = "Passwords do not match"
               /\ loading' = FALSE
               /\ calls' = Started("form", Invalid(c))
               /\ UNCHANGED <<svars, getOutcomes>>
          ELSE IF PasswordTooShort(newPassword)
          THEN /\ error' = "Password must be at least 6 characters"
               /\ loading' = FALSE
               /\ calls' = Started("form", Invalid(c))
               /\ UNCHANGED <<svars, getOutcomes>>
          ELSE /\ getAuthService
               /\ LET c1 == IF NotInitialized THEN Threw(c)
                            ELSE Invoke(c, "confirmPasswordReset", auth', currentUser)
                  IN IF IsPending(c1)
                     THEN /\ calls' = Started("form", c1)
                          /\ loading' = TRUE
                          /\ error' = NoError
                     ELSE /\ calls' = Started("form", Caught(c1))
                          /\ error' = c1.thrown.message
                          /\ loading' = FALSE
    /\ UNCHANGED <<appvars, props, mfaState, inputs, totpState, success, redirect>>

\* the submit button (disabled={loading}) of the form, which the success
\* panel replaces; both inputs are required
ResetSubmit ==
    /\ form = "reset"
    /\ ~loading /\ ~success
    /\ newPassword # "" /\ confirmPassword # ""
    /\ ResetHandleSubmit

\* after confirmPasswordReset settled; the redirect is scheduled with
\* setTimeout(..., 2000)
ResetSettle(i, o) ==
    /\ i \in Outstanding("form")
    /\ calls[i].op = "reset"
    /\ calls[i].pc \in SdkFunctions
    /\ SdkEffect(calls[i].pc, o)
    /\ LET c1 == Advance(calls[i], o) IN
       IF c1.pc = "return"
       THEN /\ calls' = [calls EXCEPT ![i] = Redirecting(Resolved(c1, <<SuccessEvent("")>>))]
            /\ success' = TRUE
            /\ redirect' = IF redirectOnSuccess THEN "scheduled" ELSE redirect
            /\ UNCHANGED error
       ELSE /\ calls' = [calls EXCEPT ![i] = Caught(c1)]
            /\ error' = c1.thrown.message
            /\ UNCHANGED <<success, redirect>>
    /\ loading' = FALSE
    /\ UNCHANGED <<variant, lookup, appInits, svars, getOutcomes, props, mfaState, inputs, totpState>>

\* the timer of ResetPasswordForm fires: window.location.href = redirectUrl
RedirectTimer ==
    /\ redirect = "scheduled"
    /\ redirect' = "done"
    /\ UNCHANGED <<svars, getOutcomes, appvars, calls, props, mfaState, inputs, totpState,
                   loading, error, success>>


\* ----------------------------------------------------------- RegisterForm
\* handleSubmit up to its first await: validation, getAuthService(),
\* authService.register({email, password, displayName})
RegisterHandleSubmit ==
    /\ LET c == FormCall("register", "get",
                        IF requireDisplayName THEN displayName ELSE Undefined,
                        email, Len(password), password # confirmPassword)
       IN IF PasswordsDiffer(password, confirmPassword)
          THEN /\ error' = "Passwords do not match"
               /\ loading' = FALSE
               /\ calls' = Started("form", Invalid(c))
               /\ UNCHANGED <<svars, getOutcomes>>
          ELSE IF PasswordTooShort(password)
          THEN /\ error' = "Password must be at least 6 characters"
               /\ loading' = FALSE
               /\ calls' = Started("form", Invalid(c))
               /\ UNCHANGED <<svars, getOutcomes>>
          ELSE /\ getAuthService
               /\ LET c1 == IF NotInitialized THEN Threw(c)
                            ELSE Invoke(c, "register", auth', currentUser)
                  IN IF IsPending(c1)
                     THEN /\ calls' = Started("form", c1)
                          /\ loading' = TRUE
                          /\ error' = NoError
                     ELSE /\ calls' = Started("form", Caught(c1))
                          /\ error' = c1.thrown.message
                          /\ loading' = FALSE
    /\ UNCHANGED <<appvars, props, mfaState, inputs, totpState, success, redirect>>

\* the submit button (disabled={loading}); the inputs are required
RegisterSubmit ==
    /\ form = "register"
    /\ ~loading /\ redirect # "done"
    /\ email # "" /\ password # "" /\ confirmPassword # ""
    /\ requireDisplayName => displayName # ""
    /\ RegisterHandleSubmit

\* handleSubmit without its  await authService.sendEmailVerification()
RegisterSettle_SkipVerification(i, o) ==
    /\ i \in Outstanding("form")
    /\ calls[i].op = "register"
    /\ calls[i].pc \in SdkFunctions
    /\ SdkEffect(calls[i].pc, o)
    /\ LET c2 == Advance(calls[i], o)
       IN IF c2.pc = "return"
          THEN /\ calls' = [calls EXCEPT ![i] = Redirecting(Resolved(c2, <<SuccessEvent(email)>>))]
               /\ redirect' = IF redirectOnSuccess THEN "done" ELSE redirect
               /\ loading' = FALSE
               /\ UNCHANGED error
          ELSE IF IsPending(c2)
          THEN /\ calls' = [calls EXCEPT ![i] = c2]
               /\ UNCHANGED <<redirect, loading, error>>
          ELSE /\ calls' = [calls EXCEPT ![i] = Caught(c2)]
               /\ error' = c2.thrown.message
               /\ loading' = FALSE
               /\ UNCHANGED redirect
    /\ UNCHANGED <<variant, lookup, appInits, svars, getOutcomes, props, mfaState, inputs,
                   totpState, success>>

\* handleSubmit after an SDK call of register or of sendEmailVerification
\* settled: register may go on to updateProfile; once register resolved
\* the handler calls authService.sendEmailVerification(); once that
\* resolved it dispatches success and redirects
RegisterSettle(i, o) ==
    /\ i \in Outstanding("form")
    /\ calls[i].op = "register"
    /\ calls[i].pc \in SdkFunctions
    /\ SdkEffect(calls[i].pc, o)
    /\ LET c1 == Advance(calls[i], o)
           c2 == IF c1.pc = "return" /\ Last(c1.facade) = "register"
                 THEN Invoke(c1, "sendEmailVerification", auth, currentUser')
                 ELSE c1
       IN IF c2.pc = "return"
          THEN /\ calls' = [calls EXCEPT ![i] = Redirecting(Resolved(c2, <<SuccessEvent(email)>>))]
               /\ redirect' = IF redirectOnSuccess THEN "done" ELSE redirect
               /\ loading' = FALSE
               /\ UNCHANGED error
          ELSE IF IsPending(c2)
          THEN /\ calls' = [calls EXCEPT ![i] = c2]
               /\ UNCHANGED <<redirect, loading, error>>
          ELSE /\ calls' = [calls EXCEPT ![i] = Caught(c2)]
               /\ error' = c2.thrown.message
               /\ loading' = FALSE
               /\ UNCHANGED redirect
    /\ UNCHANGED <<variant, lookup, appInits, svars, getOutcomes, props, mfaState, inputs,
                   totpState, success>>

\* ------------------------------------------------------ scripted submission
\* the page submits the mounted form itself (form.requestSubmit()) while a
\* submission is under way: no button is involved, and the disabled inputs
\* are exempt from validation
FormRequestSubmit ==
    /\ loading
    /\ redirect # "done" /\ ~success
    /\ Cardinality(Outstanding("form")) <= MaxCalls
    /\ CASE form = "login" -> LoginHandleSubmit
         [] form = "forgot" -> ForgotHandleSubmit
         [] form = "reset" -> ResetHandleSubmit
         [] form = "register" -> RegisterHandleSubmit
         [] OTHER -> FALSE

\* ------------------------------------------------------- MfaTotpSetupForm
\* onMount up to its first await: authService.generateTotpSecret()
TotpOnMount ==
    /\ TotpShown
    /\ ~mounted
    /\ mounted' = TRUE
    /\ LET c == FormCall("totp.onMount", "get", Undefined, "", 0, FALSE)
           c1 == Invoke(c, "generateTotpSecret", auth, currentUser)
       IN IF IsPending(c1)
          THEN /\ calls' = Started("form", c1)
               /\ loading' = TRUE
               /\ error' = NoError
          ELSE /\ calls' = Started("form", Caught(c1))
               /\ error' = c1.thrown.message
               /\ loading' = FALSE
    /\ UNCHANGED <<svars, getOutcomes, appvars, props, mfaState, inputs, finalizing,
                   totpSecret, qrCodeDataUrl, success, redirect>>

\* onMount after generateTotpSecret settled: keep the secret and await
\* QRCode.toDataURL(secret.qrCodeUrl), or catch
TotpSecretSettle(i, o) ==
    /\ i \in Outstanding("form")
    /\ calls[i].op = "totp.onMount"
    /\ calls[i].pc \in SdkFunctions
    /\ SdkEffect(calls[i].pc, o)
    /\ LET c1 == Advance(calls[i], o) IN
       IF c1.pc = "return"
       THEN /\ calls' = [calls EXCEPT ![i] = [c1 EXCEPT !.pc = "QRCode.toDataURL"]]
            /\ totpSecret' = "secret"
            /\ UNCHANGED <<error, loading>>
       ELSE /\ calls' = [calls EXCEPT ![i] = Caught(c1)]
            /\ error' = c1.thrown.message
            /\ loading' = FALSE
            /\ UNCHANGED totpSecret
    /\ UNCHANGED <<variant, lookup, appInits, svars, getOutcomes, props, mfaState, inputs, mounted,
                   finalizing, qrCodeDataUrl, success, redirect>>

TotpQrSettle_NoFinally(i, ok) ==
    /\ i \in Outstanding("form")
    /\ calls[i].op = "totp.onMount"
    /\ calls[i].pc = "QRCode.toDataURL"
    /\ IF ok
       THEN /\ calls' = [calls EXCEPT ![i] = Resolved(calls[i], <<>>)]
            /\ qrCodeDataUrl' = "data:image/png"
            /\ loading' = FALSE
            /\ UNCHANGED error
       ELSE /\ calls' = [calls EXCEPT ![i] =
                  Caught([calls[i] EXCEPT !.outcome = "rejected",
                                          !.thrown = NewError("QR encoding failed")])]
            /\ error' = "QR encoding failed"
            /\ UNCHANGED <<qrCodeDataUrl, loading>>
    /\ UNCHANGED <<svars, getOutcomes, appvars, props, mfaState, inputs, mounted,
                   finalizing, totpSecret, success, redirect>>

\* onMount after QRCode.toDataURL settled (ok tells whether it resolved)
TotpQrSettle(i, ok) ==
    /\ i \in Outstanding("form")
    /\ calls[i].op = "totp.onMount"
    /\ calls[i].pc = "QRCode.toDataURL"
    /\ IF ok
       THEN /\ calls' = [calls EXCEPT ![i] = Resolved(calls[i], <<>>)]
            /\ qrCodeDataUrl' = "data:image/png"
            /\ UNCHANGED error
       ELSE /\ calls' = [calls EXCEPT ![i] =
                  Caught([calls[i] EXCEPT !.outcome = "rejected",
                                          !.thrown = NewError("QR encoding failed")])]
            /\ error' = "QR encoding failed"
            /\ UNCHANGED qrCodeDataUrl
    /\ loading' = FALSE
    /\ UNCHANGED <<svars, getOutcomes, appvars, props, mfaState, inputs, mounted,
                   finalizing, totpSecret, success, redirect>>

\* handleVerify without its first line
TotpHandleVerify_NoGuard ==
    /\ LET c == [FormCall("totp.handleVerify", "get", Undefined, "", 0, FALSE)
                   EXCEPT !.secret = totpSecret, !.code = verificationCode]
           c1 == Invoke(c, "enrollTotp", auth, currentUser)
       IN IF IsPending(c1)
          THEN /\ calls' = Started("form", c1)
               /\ finalizing' = TRUE
               /\ error' = NoError
          ELSE /\ calls' = Started("form", Caught(c1))
               /\ error' = c1.thrown.message
               /\ finalizing' = FALSE
    /\ UNCHANGED <<svars, getOutcomes, appvars, props, mfaState, inputs, mounted, loading,
                   totpSecret, qrCodeDataUrl, success, redirect>>

\* handleVerify up to its first await:
\*   if (!totpSecret || verificationCode.length < 6) return;
\* then  authService.enrollTotp(totpSecret, verificationCode)
TotpHandleVerify ==
    /\ LET c == FormCall("totp.handleVerify", "get", Undefined, "", 0, FALSE)
           c1 == Invoke([c EXCEPT !.secret = totpSecret, !.code = verificationCode],
                        "enrollTotp", auth, currentUser)
       IN IF totpSecret = Null \/ Len(verificationCode) < 6
          THEN /\ calls' = Started("form", Returned(c))
               /\ UNCHANGED <<finalizing, error>>
          ELSE IF IsPending(c1)
          THEN /\ calls' = Started("form", c1)
               /\ finalizing' = TRUE
               /\ error' = NoError
          ELSE /\ calls' = Started("form", Caught(c1))
               /\ error' = c1.thrown.message
               /\ finalizing' = FALSE
    /\ UNCHANGED <<svars, getOutcomes, appvars, props, mfaState, inputs, mounted, loading,
                   totpSecret, qrCodeDataUrl, success, redirect>>

\* the submit button.  The form is rendered once loading is false and the
\* secret is there; its button is
\* disabled={finalizing || verificationCode.length < 6}
TotpVerify ==
    /\ TotpShown
    /\ ~loading /\ ~finalizing
    /\ totpSecret # Null
    /\ Len(verificationCode) >= 6
    /\ TotpHandleVerify

\* the page submits the rendered form itself (form.requestSubmit()): no
\* button is involved; the code input is required unless it is disabled
\* (disabled={finalizing})
TotpRequestSubmit ==
    /\ TotpShown
    /\ ~loading
    /\ totpSecret # Null
    /\ finalizing \/ verificationCode # ""
    /\ Cardinality(Outstanding("form")) <= MaxCalls
    /\ TotpHandleVerify

\* handleVerify after enrollTotp settled.  Rendered by MfaSetupForm, its
\* success event runs  on:success={() => (setupMode = "success")}, which
\* takes the form off the page
TotpVerifySettle(i, o) ==
    /\ i \in Outstanding("form")
    /\ calls[i].op = "totp.handleVerify"
    /\ calls[i].pc \in SdkFunctions
    /\ SdkEffect(calls[i].pc, o)
    /\ LET c1 == Advance(calls[i], o) IN
       IF c1.pc = "return"
       THEN /\ calls' = [calls EXCEPT ![i] = Resolved(c1, <<SuccessEvent("")>>)]
            /\ enrolled' = enrolled \cup {"totp"}
            /\ IF form = "mfaSetup"
               THEN /\ setupMode' = "success"
                    /\ error' = outer[1]
                    /\ verificationCode' = outer[2]
               ELSE UNCHANGED <<setupMode, error, verificationCode>>
       ELSE /\ calls' = [calls EXCEPT ![i] = Caught(c1)]
            /\ error' = c1.thrown.message
            /\ UNCHANGED <<setupMode, enrolled, verificationCode>>
    /\ finalizing' = FALSE
    /\ UNCHANGED <<variant, lookup, appInits, svars, getOutcomes, props, mounted,
                   loading, totpSecret, qrCodeDataUrl, success, redirect,
                   email, password, newPassword, confirmPassword, displayName,
                   codeSent, sendingCode, verificationId, recaptchaVerifier,
                   recaptchaTimer, hints, localSelectedIndex, smsSent, outer>>

\* onMount of a MfaTotpSetupForm that MfaSetupForm has taken off the page
\* goes on after its await: it writes the state of the component that is
\* gone and dispatches what it would have dispatched
TotpUnmountedSettle(i, o) ==
    /\ i \in Outstanding("form")
    /\ calls[i].op = "totp.onMount (unmounted)"
    /\ calls' = [calls EXCEPT ![i] =
          IF o # "ok"
          THEN Caught([calls[i] EXCEPT !.outcome = "rejected",
                          !.thrown = IF calls[i].pc \in SdkFunctions
                                     THEN Rejection(calls[i].src, o)
                                     ELSE NewError("QR encoding failed"),
                          !.sdkErr = IF calls[i].pc \in SdkFunctions THEN o ELSE "none"])
          ELSE IF calls[i].pc \in SdkFunctions
          THEN [calls[i] EXCEPT !.pc = "QRCode.toDataURL"]
          ELSE Resolved(calls[i], <<>>)]
    /\ UNCHANGED <<svars, getOutcomes, appvars, fvars>>

\* ----------------------------------------------------------- the MFA forms
\* These forms call the SDK themselves (getAuth(), PhoneAuthProvider,
\* multiFactor(user), resolver), not the facade.
MfaForms == {"mfaSetup", "mfaChallenge", "mfaChallengeEarlier"}

\* number of SMS codes the SDK sends to one mounted form
MaxSms == 2

\* resolver.hints, by factorId
Hints == {<<"phone">>, <<"totp">>, <<"phone", "totp">>, <<"totp", "phone">>,
          <<"phone", "phone">>}

MfaSdkFunctions ==
    {"multiFactor.getSession", "verifyPhoneNumber", "multiFactor.enroll", "resolveSignIn"}

\* the handler reaches  await f(...)
Await(c, f) == [c EXCEPT !.pc = f, !.sdk = Append(@, f)]

\* throw new Error(msg) inside the handler's try
ThrewError(c, msg) ==
    [c EXCEPT !.pc = "done", !.outcome = "threw", !.thrown = NewError(msg)]

\* the awaited SDK call rejected with id; these handlers catch the SDK's
\* own value
RejectedRaw(c, id) ==
    [c EXCEPT !.pc = "done", !.outcome = "rejected", !.thrown = Rethrown(id),
              !.sdkErr = id]

\* error = err.message || fallback
MessageOr(t, fallback) == OrElse(t.message, fallback)

\* the page mounts an MFA form.  MfaSetupForm is mounted for an initialized
\* library; a challenge form is mounted with the resolver (hints h) the SDK
\* made from a failed sign-in, and selectedIndex k
MountMfa(f, h, k) ==
    /\ form = "none"
    /\ f \in MfaForms
    /\ auth # NullHandle
    /\ f = "mfaSetup" => variant = "extended" /\ h = <<"phone">> /\ k = 1
    /\ f # "mfaSetup" => h \in Hints /\ k \in 1..Len(h)
    /\ form' = f
    /\ hints' = IF f = "mfaSetup" THEN <<>> ELSE h
    /\ localSelectedIndex' = k
    /\ UNCHANGED <<svars, getOutcomes, appvars, calls, redirectOnSuccess,
                   requireDisplayName, inputs, totpState, loading, error, success,
                   redirect, setupMode, codeSent, sendingCode, verificationId,
                   recaptchaVerifier, recaptchaTimer, smsSent, enrolled, outer>>

\* state the MFA forms never write
notMfa == <<redirectOnSuccess, requireDisplayName, email, password, newPassword,
            confirmPassword, displayName, success, redirect>>

\* effect of an SDK function an MFA form awaits settling with o:
\* resolveSignIn completes the sign-in
MfaSdkEffect(f, o) ==
    /\ currentUser' = IF f = "resolveSignIn" /\ o = "ok" THEN "user" ELSE currentUser
    /\ lastNotified' = IF currentUser' # currentUser THEN listeners ELSE lastNotified

\* ----------------------------------------------------------- MfaSetupForm
\* a method card is clicked: setupMode = m.  The $effect runs again (its
\* cleanup clears the verifier; in phone mode it schedules initRecaptcha);
\* in totp mode MfaTotpSetupForm is constructed (getAuthService(), loading
\* = true) with state of its own
SetupChoose(m) ==
    /\ form = "mfaSetup"
    /\ setupMode = "selection"
    /\ m = "totp" => Cardinality(Outstanding("form")) < MaxCalls
    /\ setupMode' = m
    /\ recaptchaVerifier' = FALSE
    /\ IF m = "phone"
       THEN /\ recaptchaTimer' = (recaptchaTimer \/ ~codeSent)
            /\ UNCHANGED <<svars, getOutcomes, totpState, loading, error,
                           verificationCode, outer>>
       ELSE /\ getAuthService
            /\ outer' = <<error, verificationCode>>
            /\ mounted' = FALSE /\ finalizing' = FALSE
            /\ totpSecret' = Null /\ qrCodeDataUrl' = Null
            /\ loading' = TRUE /\ error' = NoError /\ verificationCode' = ""
            /\ UNCHANGED recaptchaTimer
    /\ UNCHANGED <<appvars, calls, notMfa, form, codeSent, sendingCode,
                   verificationId, hints, localSelectedIndex, smsSent, enrolled>>

\* the back button of the MfaTotpSetupForm child (disabled={finalizing}):
\* on:back={() => (setupMode = "selection")} takes the child off the page;
\* an onMount still awaiting goes on without it
SetupTotpBack ==
    /\ form = "mfaSetup"
    /\ setupMode = "totp"
    /\ ~finalizing
    /\ setupMode' = "selection"
    /\ error' = outer[1] /\ verificationCode' = outer[2]
    /\ loading' = FALSE
    /\ mounted' = FALSE /\ totpSecret' = Null /\ qrCodeDataUrl' = Null
    /\ calls' = [j \in 1..Len(calls) |->
                   IF calls[j].op = "totp.onMount" /\ IsPending(calls[j])
                   THEN [calls[j] EXCEPT !.op = "totp.onMount (unmounted)"]
                   ELSE calls[j]]
    /\ UNCHANGED <<svars, getOutcomes, appvars, notMfa, form, finalizing, codeSent,
                   sendingCode, verificationId, recaptchaVerifier, recaptchaTimer,
                   hints, localSelectedIndex, smsSent, enrolled, outer>>

\* the timer set by the $effect fires: initRecaptcha().  ok tells whether
\* new RecaptchaVerifier(...) succeeds
InitRecaptcha(ok) ==
    /\ form = "mfaSetup"
    /\ recaptchaTimer
    /\ recaptchaTimer' = FALSE
    /\ recaptchaVerifier' = (recaptchaVerifier \/ ok)
    /\ IF recaptchaVerifier \/ ok
       THEN UNCHANGED <<error, outer>>
       ELSE IF setupMode = "totp"
       THEN /\ outer' = <<"Failed to initialize verification. Please try again.", outer[2]>>
            /\ UNCHANGED error
       ELSE /\ error' = "Failed to initialize verification. Please try again."
            /\ UNCHANGED outer
    /\ UNCHANGED <<svars, getOutcomes, appvars, calls, notMfa, form, inputs, totpState,
                   loading, setupMode, codeSent, sendingCode, verificationId, hints,
                   localSelectedIndex, smsSent, enrolled>>

\* the verifier's "expired-callback"
RecaptchaExpired ==
    /\ form = "mfaSetup"
    /\ setupMode = "phone"
    /\ recaptchaVerifier
    /\ error' = "reCAPTCHA expired. Please try again."
    /\ UNCHANGED <<svars, getOutcomes, appvars, calls, notMfa, form, inputs, totpState,
                   loading, mfaState>>

\* handleSendCode up to its first await (submit button disabled={loading})
SetupSendCode ==
    /\ form = "mfaSetup"
    /\ setupMode = "phone" /\ ~codeSent
    /\ ~loading
    /\ smsSent < MaxSms
    /\ LET c == FormCall("mfaSetup.handleSendCode", "sdk", Undefined, "", 0, FALSE)
           c1 == IF currentUser = NoUser THEN ThrewError(c, "No user signed in")
                 ELSE IF ~recaptchaVerifier THEN ThrewError(c, "reCAPTCHA not initialized")
                 ELSE Await(c, "multiFactor.getSession")
       IN IF IsPending(c1)
          THEN /\ calls' = Started("form", c1)
               /\ loading' = TRUE
               /\ error' = NoError
          ELSE /\ calls' = Started("form", Caught(c1))
               /\ error' = MessageOr(c1.thrown, "Failed to send verification code")
               /\ loading' = FALSE
    /\ UNCHANGED <<svars, getOutcomes, appvars, notMfa, form, inputs, totpState, mfaState>>

\* handleSendCode after getSession or verifyPhoneNumber settled; codeSent =
\* true runs the $effect's cleanup
SetupSendSettle(i, o) ==
    /\ i \in Outstanding("form")
    /\ calls[i].op = "mfaSetup.handleSendCode"
    /\ calls[i].pc \in MfaSdkFunctions
    /\ MfaSdkEffect(calls[i].pc, o)
    /\ IF o # "ok"
       THEN /\ calls' = [calls EXCEPT ![i] = Caught(RejectedRaw(calls[i], o))]
            /\ error' = MessageOr(Rethrown(o), "Failed to send verification code")
            /\ loading' = FALSE
            /\ UNCHANGED <<verificationId, codeSent, smsSent, recaptchaVerifier>>
       ELSE IF calls[i].pc = "multiFactor.getSession"
       THEN /\ calls' = [calls EXCEPT ![i] = Await(calls[i], "verifyPhoneNumber")]
            /\ UNCHANGED <<error, loading, verificationId, codeSent, smsSent,
                           recaptchaVerifier>>
       ELSE /\ smsSent' = smsSent + 1
            /\ verificationId' = smsSent'
            /\ codeSent' = TRUE
            /\ recaptchaVerifier' = FALSE
            /\ calls' = [calls EXCEPT ![i] =
                            Resolved([calls[i] EXCEPT !.vid = smsSent'], <<>>)]
            /\ loading' = FALSE
            /\ UNCHANGED error
    /\ UNCHANGED <<svars, getOutcomes, variant, lookup, appInits, notMfa, form, inputs,
                   totpState, setupMode, sendingCode, recaptchaTimer, hints,
                   localSelectedIndex, enrolled, outer>>

\* "Change number" (not disabled while loading): back to the phone number
\* step; the $effect runs again
SetupChangeNumber ==
    /\ form = "mfaSetup"
    /\ setupMode = "phone" /\ codeSent
    /\ codeSent' = FALSE
    /\ verificationCode' = ""
    /\ error' = NoError
    /\ recaptchaVerifier' = FALSE
    /\ recaptchaTimer' = TRUE
    /\ UNCHANGED <<svars, getOutcomes, appvars, calls, notMfa, form, totpState, loading,
                   setupMode, sendingCode, verificationId, hints, localSelectedIndex,
                   smsSent, enrolled, outer>>

\* a Back button shown in every mode
SetupBack_AnyMode ==
    /\ form = "mfaSetup"
    /\ ~loading
    /\ setupMode' = "selection"
    /\ recaptchaVerifier' = FALSE
    /\ UNCHANGED <<svars, getOutcomes, appvars, calls, notMfa, form, inputs, totpState,
                   loading, error, codeSent, sendingCode, verificationId,
                   recaptchaTimer, hints, localSelectedIndex, smsSent, enrolled, outer>>

\* "Back" of the phone number step (disabled={loading})
SetupBack ==
    /\ form = "mfaSetup"
    /\ setupMode = "phone" /\ ~codeSent
    /\ ~loading
    /\ setupMode' = "selection"
    /\ recaptchaVerifier' = FALSE
    /\ UNCHANGED <<svars, getOutcomes, appvars, calls, notMfa, form, inputs, totpState,
                   loading, error, codeSent, sendingCode, verificationId,
                   recaptchaTimer, hints, localSelectedIndex, smsSent, enrolled, outer>>

\* handleVerifyPhoneCode up to its await: the form is rendered when
\* codeSent, its button is disabled={loading}, the code input is required
SetupVerifyPhone ==
    /\ form = "mfaSetup"
    /\ setupMode = "phone" /\ codeSent
    /\ ~loading
    /\ verificationCode # ""
    /\ LET c == [FormCall("mfaSetup.handleVerifyPhoneCode", "sdk", Undefined,
                         "", 0, FALSE)
                   EXCEPT !.factor = "phone", !.vid = verificationId]
           c1 == IF currentUser = NoUser THEN ThrewError(c, "No user signed in")
                 ELSE Await(c, "multiFactor.enroll")
       IN IF IsPending(c1)
          THEN /\ calls' = Started("form", c1)
               /\ loading' = TRUE
               /\ error' = NoError
          ELSE /\ calls' = Started("form", Caught(c1))
               /\ error' = MessageOr(c1.thrown, "Failed to verify code")
               /\ loading' = FALSE
    /\ UNCHANGED <<svars, getOutcomes, appvars, notMfa, form, inputs, totpState, mfaState>>

\* handleVerifyPhoneCode after enroll settled
SetupVerifySettle(i, o) ==
    /\ i \in Outstanding("form")
    /\ calls[i].op = "mfaSetup.handleVerifyPhoneCode"
    /\ calls[i].pc \in MfaSdkFunctions
    /\ MfaSdkEffect(calls[i].pc, o)
    /\ IF o = "ok"
       THEN /\ calls' = [calls EXCEPT ![i] = Resolved(calls[i], <<>>)]
            /\ setupMode' = "success"
            /\ enrolled' = enrolled \cup {"phone"}
            /\ recaptchaVerifier' = FALSE
            /\ UNCHANGED error
       ELSE /\ calls' = [calls EXCEPT ![i] = Caught(RejectedRaw(calls[i], o))]
            /\ error' = MessageOr(Rethrown(o), "Failed to verify code")
            /\ UNCHANGED <<setupMode, enrolled, recaptchaVerifier>>
    /\ loading' = FALSE
    /\ UNCHANGED <<svars, getOutcomes, variant, lookup, appInits, notMfa, form, inputs,
                   totpState, codeSent, sendingCode, verificationId, recaptchaTimer,
                   hints, localSelectedIndex, smsSent, outer>>

\* handleSuccess reachable in every mode
SetupSuccess_AnyMode ==
    /\ form = "mfaSetup"
    /\ calls' = Started("form",
                  Resolved(FormCall("mfaSetup.handleSuccess", "sdk", Undefined,
                                    "", 0, FALSE), <<SuccessEvent("")>>))
    /\ UNCHANGED <<svars, getOutcomes, appvars, fvars>>

\* the button of the success panel: handleSuccess() dispatches success
SetupSuccess ==
    /\ form = "mfaSetup"
    /\ setupMode = "success"
    /\ calls' = Started("form",
                  Resolved(FormCall("mfaSetup.handleSuccess", "sdk", Undefined,
                                   "", 0, FALSE), <<SuccessEvent("")>>))
    /\ UNCHANGED <<svars, getOutcomes, appvars, fvars>>

\* ------------------------------------------------------- MfaChallengeForm
\* onMount: a RecaptchaVerifier is made when the selected factor is a
\* phone; ok tells whether new RecaptchaVerifier(...) succeeds (a failure
\* is logged only)
ChallengeOnMount(ok) ==
    /\ form = "mfaChallenge"
    /\ ~mounted
    /\ mounted' = TRUE
    /\ recaptchaVerifier' = (IsPhone /\ ok)
    /\ UNCHANGED <<svars, getOutcomes, appvars, calls, notMfa, form, inputs, loading,
                   error, finalizing, totpSecret, qrCodeDataUrl, setupMode, codeSent,
                   sendingCode, verificationId, recaptchaTimer, hints,
                   localSelectedIndex, smsSent, enrolled, outer>>

\* a method button is clicked ({#if resolver.hints.length > 1}); the
\* earlier form only sets selectedIndex
ChallengeSelect(k) ==
    /\ (form = "mfaChallenge" /\ mounted) \/ form = "mfaChallengeEarlier"
    /\ Len(hints) > 1
    /\ k \in 1..Len(hints)
    /\ localSelectedIndex' = k
    /\ IF form = "mfaChallenge"
       THEN /\ verificationId' = NoVerificationId
            /\ verificationCode' = ""
            /\ error' = NoError
       ELSE UNCHANGED <<verificationId, verificationCode, error>>
    /\ UNCHANGED <<svars, getOutcomes, appvars, calls, notMfa, form, totpState, loading,
                   setupMode, codeSent, sendingCode, recaptchaVerifier,
                   recaptchaTimer, hints, smsSent, enrolled, outer>>

\* handleSendPhoneCode up to its await.  The button is rendered
\* {#if isPhone && !verificationId} and disabled={sendingCode}; the handler
\* returns at once  if (!isPhone || !recaptchaVerifier)
ChallengeSendPhoneCode ==
    /\ form = "mfaChallenge" /\ mounted
    /\ IsPhone /\ verificationId = NoVerificationId
    /\ ~sendingCode
    /\ LET c == [FormCall("mfaChallenge.handleSendPhoneCode", "sdk",
                          Undefined, "", 0, FALSE)
                   EXCEPT !.factor = "phone", !.hint = localSelectedIndex]
       IN IF ~IsPhone \/ ~recaptchaVerifier
          THEN /\ calls' = Started("form", Returned(c))
               /\ UNCHANGED <<sendingCode, error>>
          ELSE /\ smsSent < MaxSms
               /\ sendingCode' = TRUE
               /\ error' = NoError
               /\ calls' = Started("form", Await(c, "verifyPhoneNumber"))
    /\ UNCHANGED <<svars, getOutcomes, appvars, notMfa, form, inputs, totpState, loading,
                   setupMode, codeSent, verificationId, recaptchaVerifier,
                   recaptchaTimer, hints, localSelectedIndex, smsSent, enrolled, outer>>

\* handleSendPhoneCode after verifyPhoneNumber settled
ChallengeSendSettle(i, o) ==
    /\ i \in Outstanding("form")
    /\ calls[i].op = "mfaChallenge.handleSendPhoneCode"
    /\ MfaSdkEffect(calls[i].pc, o)
    /\ IF o = "ok"
       THEN /\ smsSent' = smsSent + 1
            /\ verificationId' = smsSent'
            /\ calls' = [calls EXCEPT ![i] =
                            Resolved([calls[i] EXCEPT !.vid = smsSent'], <<>>)]
            /\ UNCHANGED error
       ELSE /\ calls' = [calls EXCEPT ![i] = Caught(RejectedRaw(calls[i], o))]
            /\ error' = MessageOr(Rethrown(o), "Failed to send verification code")
            /\ UNCHANGED <<smsSent, verificationId>>
    /\ sendingCode' = FALSE
    /\ UNCHANGED <<svars, getOutcomes, variant, lookup, appInits, notMfa, form, inputs,
                   totpState, loading, setupMode, codeSent, recaptchaVerifier,
                   recaptchaTimer, hints, localSelectedIndex, enrolled, outer>>

\* "Resend code" ({#if isPhone} inside the code step)
ChallengeResend ==
    /\ form = "mfaChallenge" /\ mounted
    /\ IsPhone /\ verificationId # NoVerificationId
    /\ verificationId' = NoVerificationId
    /\ verificationCode' = ""
    /\ UNCHANGED <<svars, getOutcomes, appvars, calls, notMfa, form, totpState, loading,
                   error, setupMode, codeSent, sendingCode, recaptchaVerifier,
                   recaptchaTimer, hints, localSelectedIndex, smsSent, enrolled, outer>>

\* handleVerify from its start to its await
handleVerify ==
    /\ LET c == [FormCall("mfaChallenge.handleVerify", "sdk", Undefined, "", 0, FALSE)
                   EXCEPT !.factor = hints[localSelectedIndex],
                          !.hint = localSelectedIndex,
                          !.vid = IF IsPhone THEN verificationId ELSE NoVerificationId]
           c1 == IF IsPhone /\ verificationId = NoVerificationId
                 THEN ThrewError(c, "Please send verification code first")
                 ELSE IF hints[localSelectedIndex] \notin {"phone", "totp"}
                 THEN ThrewError(c, "Unsupported authentication factor")
                 ELSE Await(c, "resolveSignIn")
       IN IF IsPending(c1)
          THEN /\ calls' = Started("form", c1)
               /\ loading' = TRUE
               /\ error' = NoError
          ELSE /\ calls' = Started("form", Caught(c1))
               /\ error' = MessageOr(c1.thrown, "Invalid verification code")
               /\ loading' = FALSE
    /\ UNCHANGED <<svars, getOutcomes, appvars, notMfa, form, inputs, totpState, mfaState>>

\* the submit button: rendered {#if !isPhone || verificationId},
\* disabled={loading || verificationCode.length !== 6}
ChallengeVerify ==
    /\ form = "mfaChallenge" /\ mounted
    /\ ~IsPhone \/ verificationId # NoVerificationId
    /\ ~loading
    /\ Len(verificationCode) = 6
    /\ handleVerify

\* the page submits the form itself (form.requestSubmit()): no button is
\* involved; the code input, where it is rendered, is required
ChallengeRequestSubmit ==
    /\ form = "mfaChallenge" /\ mounted
    /\ Cardinality(Outstanding("form")) < MaxCalls
    /\ (~IsPhone \/ verificationId # NoVerificationId) => verificationCode # ""
    /\ handleVerify

\* handleVerifyCode of the earlier MfaChallengeForm up to its await: the
\* credential is made from resolver.session and the code
EarlierVerify ==
    /\ form = "mfaChallengeEarlier"
    /\ ~loading
    /\ Len(verificationCode) = 6
    /\ calls' = Started("form",
                  Await([FormCall("mfaChallengeEarlier.handleVerifyCode", "sdk",
                                 Undefined, "", 0, FALSE)
                           EXCEPT !.factor = hints[localSelectedIndex]],
                        "resolveSignIn"))
    /\ loading' = TRUE
    /\ error' = NoError
    /\ UNCHANGED <<svars, getOutcomes, appvars, notMfa, form, inputs, totpState, mfaState>>

\* handleVerify / handleVerifyCode after resolver.resolveSignIn settled
ChallengeVerifySettle(i, o) ==
    /\ i \in Outstanding("form")
    /\ calls[i].op \in {"mfaChallenge.handleVerify", "mfaChallengeEarlier.handleVerifyCode"}
    /\ MfaSdkEffect(calls[i].pc, o)
    /\ IF o = "ok"
       THEN /\ calls' = [calls EXCEPT ![i] = Resolved(calls[i], <<SuccessEvent("")>>)]
            /\ UNCHANGED error
       ELSE /\ calls' = [calls EXCEPT ![i] = Caught(RejectedRaw(calls[i], o))]
            /\ error' = MessageOr(Rethrown(o), "Invalid verification code")
    /\ loading' = FALSE
    /\ UNCHANGED <<svars, getOutcomes, variant, lookup, appInits, notMfa, form, inputs,
                   totpState, mfaState>>

CancelEvent == [type |-> "cancel", email |-> "", error |-> NoThrown]

\* the Cancel button: onclick={() => dispatch("cancel")}; the current form
\* has it disabled={loading || sendingCode}, the earlier form never
\* disables it
ChallengeCancel ==
    /\ \/ form = "mfaChallenge" /\ mounted /\ ~loading /\ ~sendingCode
       \/ form = "mfaChallengeEarlier"
    /\ calls' = Started("form",
                  Resolved(FormCall(IF form = "mfaChallenge"
                                    THEN "mfaChallenge.cancel"
                                    ELSE "mfaChallengeEarlier.cancel",
                                    "sdk", Undefined, "", 0, FALSE),
                           <<CancelEvent>>))
    /\ UNCHANGED <<svars, getOutcomes, appvars, fvars>>

\* -------------------------------------------------------- the application
\* the application calls initFirebaseAuth({config, persistence: p,
\* onAuthStateChanged: cb ? callback : undefined})
AppInit(p, cb) ==
    /\ appInits < MaxInit
    /\ appInits' = appInits + 1
    /\ initFirebaseAuth(p, cb)
    /\ UNCHANGED <<variant, lookup, getOutcomes, currentUser, lastNotified, calls, fvars>>

\* the promise of the latest setPersistence(auth, persistenceType) settles;
\* a rejection runs  .catch((error) => console.error(...))
SetPersistenceSettle(ok) ==
    /\ persistenceStatus = "pending"
    /\ persistenceStatus' = IF ok THEN "set" ELSE "failed"
    /\ UNCHANGED <<firebaseApp, auth, initAppCalls, getAuthCalls, persistence,
                   optionsPersistence, listeners, services, getOutcomes, appvars,
                   calls, fvars>>

\* the application calls getAuthService() and keeps the result
AppGetAuthService ==
    /\ getAuthService
    /\ UNCHANGED <<appvars, calls, fvars>>

\* the SDK changes auth.currentUser on its own (a persisted session is
\* restored, the session ends) and notifies every registered listener
SdkAuthStateChange ==
    /\ auth # NullHandle
    /\ currentUser' = IF currentUser = NoUser THEN "user" ELSE NoUser
    /\ lastNotified' = listeners
    /\ UNCHANGED <<variant, lookup, appInits, svars, getOutcomes, calls, fvars>>

\* the application calls a facade operation on the service it got from
\* initFirebaseAuth (src = "init") or from getAuthService() (src = "get")
AppCall(op, src, dn) ==
    /\ Cardinality(Outstanding("app")) < MaxCalls
    /\ op \in FacadeOps(variant)
    /\ dn # Undefined => op = "register"
    /\ src = "init" => appInits > 0
    /\ IF src = "get" THEN getAuthService ELSE UNCHANGED <<svars, getOutcomes>>
    /\ LET c == NewCall("app", op, src, dn, "", 0, FALSE) IN
       calls' = Started("app",
                  IF src = "get" /\ NotInitialized THEN Threw(c)
                  ELSE Invoke(c, op, auth', currentUser))
    /\ UNCHANGED <<appvars, fvars>>

\* the application calls getCurrentUser() of a facade: it returns at once
AppGetCurrentUser(src) ==
    /\ src = "init" => appInits > 0
    /\ IF src = "get" THEN getAuthService ELSE UNCHANGED <<svars, getOutcomes>>
    /\ LET c == NewCall("app", "getCurrentUser", src, Undefined, "", 0, FALSE) IN
       calls' = Started("app",
                  IF src = "get" /\ NotInitialized THEN Threw(c)
                  ELSE [c EXCEPT !.facade = <<"getCurrentUser">>, !.pc = "done",
                                 !.outcome = "resolved", !.user = currentUser,
                                 !.result = getCurrentUser(auth', currentUser)])
    /\ UNCHANGED <<appvars, fvars>>

\* the SDK call an application-made facade call awaits settles: o is "ok"
\* or the identity of the value the SDK rejects with
AppSettle(i, o) ==
    /\ i \in Outstanding("app")
    /\ calls[i].pc \in SdkFunctions
    /\ SdkEffect(calls[i].pc, o)
    /\ LET c1 == Advance(calls[i], o) IN
       calls' = [calls EXCEPT ![i] =
                    IF c1.pc = "return"
                    THEN [c1 EXCEPT !.pc = "done", !.outcome = "resolved"]
                    ELSE c1]
    /\ UNCHANGED <<variant, lookup, appInits, svars, getOutcomes, fvars>>

\* ---------------------------------------------------------- specifications
vars == <<variant, lookup, appInits, currentUser, lastNotified, svars,
          getOutcomes, calls, fvars>>

\* everything but the arguments of the message lookup
InitRest ==
    /\ variant \in Variants
    /\ firebaseApp = NullHandle
    /\ auth = NullHandle
    /\ appInits = 0
    /\ initAppCalls = 0
    /\ getAuthCalls = 0
    /\ persistence = "unset"
    /\ optionsPersistence = "unset"
    /\ persistenceStatus = "none"
    /\ listeners = 0
    /\ services = {}
    /\ getOutcomes = {}
    /\ currentUser = NoUser
    /\ lastNotified = 0
    /\ calls = <<>>
    /\ form = "none"
    /\ redirectOnSuccess = TRUE
    /\ requireDisplayName = TRUE
    /\ mounted = FALSE
    /\ email = "" /\ password = "" /\ newPassword = "" /\ confirmPassword = ""
    /\ displayName = "" /\ verificationCode = ""
    /\ loading = FALSE /\ finalizing = FALSE
    /\ error = NoError /\ success = FALSE
    /\ totpSecret = Null /\ qrCodeDataUrl = Null
    /\ redirect = "none"
    /\ setupMode = "selection" /\ codeSent = FALSE /\ sendingCode = FALSE
    /\ verificationId = NoVerificationId
    /\ recaptchaVerifier = FALSE /\ recaptchaTimer = FALSE
    /\ hints = <<>> /\ localSelectedIndex = 1
    /\ smsSent = 0 /\ enrolled = {}
    /\ outer = <<NoError, "">>

Init ==
    /\ InitRest
    /\ code = "" /\ defaultMessage = "" /\ friendly = "unset"

Outcomes == {"ok"} \cup SdkErrIds

\* error codes as SDKs form them ("service/kebab-name"): every code of the
\* table and some the table does not have
SdkCodes ==
    DOMAIN ExtendedMessages \cup
    {"auth/internal-error", "auth/quota-exceeded", "auth/missing-password",
     "storage/unknown"}

RawMessages ==
    {"", "Firebase: Error.", "No account found with this email"}

InitLookup ==
    /\ InitRest
    /\ code \in SdkCodes
    /\ defaultMessage \in RawMessages
    /\ friendly = "unset"

\* normalizeError calls getUserFriendlyMessage(code, message)
CallGetUserFriendlyMessage ==
    /\ friendly = "unset"
    /\ friendly' = getUserFriendlyMessage(variant, code, defaultMessage)
    /\ UNCHANGED <<variant, code, defaultMessage, appInits, currentUser,
                   lastNotified, svars, getOutcomes, calls, fvars>>

SpecLookup == InitLookup /\ [][CallGetUserFriendlyMessage]_vars

\* the service as the application uses it: initialization, accessor, auth
\* state changes
NextInit ==
    \/ \E p \in PersistenceOptions, cb \in BOOLEAN : AppInit(p, cb)
    \/ AppGetAuthService
    \/ SdkAuthStateChange
    \/ \E ok \in BOOLEAN : SetPersistenceSettle(ok)

SpecInit == Init /\ [][NextInit]_vars

\* the facade as the application uses it, in an application that
\* initializes once (SpecInit covers repeated initialization)
NextFacade ==
    \/ \E p \in {"absent"}, cb \in {FALSE} : appInits = 0 /\ AppInit(p, cb)
    \/ \E op \in ExtendedOps \ {"unenrollMfa"}, src \in {"init", "get"},
          dn \in {Undefined, "", "Ann"} :
          AppCall(op, src, dn)
    \/ \E i \in 1..Len(calls), o \in Outcomes : AppSettle(i, o)

SpecFacade == Init /\ [][NextFacade]_vars

\* the forms
Next ==
    \/ \E p \in {"session"}, cb \in {FALSE} : AppInit(p, cb)
    \/ SdkAuthStateChange
    \/ \E f \in Forms, ros \in BOOLEAN, rdn \in BOOLEAN : Mount(f, ros, rdn)
    \/ \E v \in Emails : EditEmail(v)
    \/ \E v \in Passwords : EditPassword(v)
    \/ \E v \in Passwords : EditNewPassword(v)
    \/ \E v \in Passwords : EditConfirmPassword(v)
    \/ \E v \in DisplayNames : EditDisplayName(v)
    \/ \E v \in Codes : EditVerificationCode(v)
    \/ LoginSubmit
    \/ \E i \in 1..Len(calls), o \in Outcomes : LoginSettle(i, o)
    \/ ForgotSubmit
    \/ \E i \in 1..Len(calls), o \in Outcomes : ForgotSettle(i, o)
    \/ ResetSubmit
    \/ \E i \in 1..Len(calls), o \in Outcomes : ResetSettle(i, o)
    \/ RedirectTimer
    \/ RegisterSubmit
    \/ \E i \in 1..Len(calls), o \in Outcomes : RegisterSettle(i, o)
    \/ TotpOnMount
    \/ \E i \in 1..Len(calls), o \in Outcomes : TotpSecretSettle(i, o)
    \/ \E i \in 1..Len(calls), ok \in BOOLEAN : TotpQrSettle(i, ok)
    \/ TotpVerify
    \/ \E i \in 1..Len(calls), o \in Outcomes : TotpVerifySettle(i, o)

Spec == Init /\ [][Next]_vars

\* what an SDK call of an MFA form settles with: resolved, rejected with a
\* FirebaseError, rejected with a value that has no message
MfaOutcomes == {"ok", "E_notfound", "E_string"}

\* the MFA forms
NextMfa ==
    \/ \E p \in {"absent"}, cb \in {FALSE} : AppInit(p, cb)
    \/ SdkAuthStateChange
    \/ \E f \in MfaForms, h \in Hints, k \in 1..2 : MountMfa(f, h, k)
    \/ \E v \in Codes : EditVerificationCode(v)
    \/ \E m \in {"phone", "totp"} : SetupChoose(m)
    \/ SetupTotpBack
    \/ \E ok \in BOOLEAN : InitRecaptcha(ok)
    \/ RecaptchaExpired
    \/ SetupSendCode
    \/ \E i \in 1..Len(calls), o \in MfaOutcomes : SetupSendSettle(i, o)
    \/ SetupChangeNumber
    \/ SetupBack
    \/ SetupVerifyPhone
    \/ \E i \in 1..Len(calls), o \in MfaOutcomes : SetupVerifySettle(i, o)
    \/ SetupSuccess
    \/ TotpOnMount
    \/ \E i \in 1..Len(calls), o \in MfaOutcomes : TotpSecretSettle(i, o)
    \/ \E i \in 1..Len(calls), ok \in BOOLEAN : TotpQrSettle(i, ok)
    \/ \E i \in 1..Len(calls), o \in MfaOutcomes : TotpUnmountedSettle(i, o)
    \/ TotpVerify
    \/ \E i \in 1..Len(calls), o \in MfaOutcomes : TotpVerifySettle(i, o)
    \/ \E ok \in BOOLEAN : ChallengeOnMount(ok)
    \/ \E k \in 1..2 : ChallengeSelect(k)
    \/ ChallengeSendPhoneCode
    \/ \E i \in 1..Len(calls), o \in MfaOutcomes : ChallengeSendSettle(i, o)
    \/ ChallengeResend
    \/ ChallengeVerify
    \/ ChallengeRequestSubmit
    \/ EarlierVerify
    \/ \E i \in 1..Len(calls), o \in MfaOutcomes : ChallengeVerifySettle(i, o)
    \/ ChallengeCancel

SpecMfa == Init /\ [][NextMfa]_vars

\* MfaSetupForm alone, in an application that initializes once
NextMfaSetup ==
    \/ \E p \in {"absent"}, cb \in {FALSE} : appInits = 0 /\ AppInit(p, cb)
    \/ SdkAuthStateChange
    \/ MountMfa("mfaSetup", <<"phone">>, 1)
    \/ \E v \in Codes : EditVerificationCode(v)
    \/ \E m \in {"phone", "totp"} : SetupChoose(m)
    \/ SetupTotpBack
    \/ \E ok \in BOOLEAN : InitRecaptcha(ok)
    \/ RecaptchaExpired
    \/ SetupSendCode
    \/ \E i \in 1..Len(calls), o \in MfaOutcomes : SetupSendSettle(i, o)
    \/ SetupChangeNumber
    \/ SetupBack
    \/ SetupVerifyPhone
    \/ \E i \in 1..Len(calls), o \in MfaOutcomes : SetupVerifySettle(i, o)
    \/ SetupSuccess
    \/ TotpOnMount
    \/ \E i \in 1..Len(calls), o \in MfaOutcomes : TotpSecretSettle(i, o)
    \/ \E i \in 1..Len(calls), ok \in BOOLEAN : TotpQrSettle(i, ok)
    \/ \E i \in 1..Len(calls), o \in MfaOutcomes : TotpUnmountedSettle(i, o)
    \/ TotpVerify
    \/ \E i \in 1..Len(calls), o \in MfaOutcomes : TotpVerifySettle(i, o)

SpecMfaSetup == Init /\ [][NextMfaSetup]_vars

\* the facade operations that read auth.currentUser, with sign-in and
\* sign-out around them
NextUser ==
    \/ \E p \in {"absent"}, cb \in {FALSE} : AppInit(p, cb)
    \/ \E op \in {"sendEmailVerification", "reloadUser", "generateTotpSecret",
                  "enrollTotp", "unenrollMfa", "signIn", "signOut"},
          src \in {"init", "get"} :
          AppCall(op, src, Undefined)
    \/ \E src \in {"init", "get"} : AppGetCurrentUser(src)
    \/ \E i \in 1..Len(calls), o \in MfaOutcomes : AppSettle(i, o)

SpecUser == Init /\ [][NextUser]_vars

\* MfaTotpSetupForm mounted by the page, with submissions the page makes
\* itself
NextTotp ==
    \/ \E p \in {"absent"}, cb \in {FALSE} : appInits = 0 /\ AppInit(p, cb)
    \/ SdkAuthStateChange
    \/ \E ros \in BOOLEAN, rdn \in BOOLEAN : Mount("totp", ros, rdn)
    \/ \E v \in Codes : EditVerificationCode(v)
    \/ TotpOnMount
    \/ \E i \in 1..Len(calls), o \in MfaOutcomes : TotpSecretSettle(i, o)
    \/ \E i \in 1..Len(calls), ok \in BOOLEAN : TotpQrSettle(i, ok)
    \/ TotpVerify
    \/ TotpRequestSubmit
    \/ \E i \in 1..Len(calls), o \in MfaOutcomes : TotpVerifySettle(i, o)

SpecTotp == Init /\ [][NextTotp]_vars

\* the four submit forms, with submissions the page makes itself
NextResubmit ==
    \/ \E p \in {"session"}, cb \in {FALSE} : appInits = 0 /\ AppInit(p, cb)
    \/ \E f \in {"login", "register", "forgot", "reset"}, ros \in BOOLEAN :
          Mount(f, ros, f # "register")
    \/ \E v \in {"a@x.io"} : EditEmail(v)
    \/ \E v \in {"abcdef"} : EditPassword(v)
    \/ \E v \in {"abcdef"} : EditNewPassword(v)
    \/ \E v \in {"abcdef"} : EditConfirmPassword(v)
    \/ LoginSubmit
    \/ ForgotSubmit
    \/ ResetSubmit
    \/ RegisterSubmit
    \/ FormRequestSubmit
    \/ \E i \in 1..Len(calls), o \in Outcomes : LoginSettle(i, o)
    \/ \E i \in 1..Len(calls), o \in Outcomes : ForgotSettle(i, o)
    \/ \E i \in 1..Len(calls), o \in Outcomes : ResetSettle(i, o)
    \/ \E i \in 1..Len(calls), o \in Outcomes : RegisterSettle(i, o)

SpecResubmit == Init /\ [][NextResubmit]_vars


\* ------------------------------------------------------------------ claims
Calls == {calls[i] : i \in 1..Len(calls)}
Range(q) == {q[i] : i \in 1..Len(q)}

\* C1: however often initFirebaseAuth runs (called by the application or
\* from getAuthService), initializeApp and getAuth are each invoked at most
\* once, and every service returned carries the module's one app handle
\* and one auth handle.
C1_InitIdempotent ==
    /\ initAppCalls <= 1
    /\ getAuthCalls <= 1
    /\ Cardinality(services) <= 1
    /\ \A sv \in services : sv.app = firebaseApp /\ sv.auth = auth

\* the application initialized a second time and got a service back
C1_Witness ==
    /\ appInits >= 2
    /\ initAppCalls = 1
    /\ "returned" \in getOutcomes
    /\ services # {}

\* C2: while initFirebaseAuth has never been called, every getAuthService
\* call throws the not-initialized error: none returns a service, and no
\* call made through it invokes a facade operation or an SDK function.
C2_NotInitializedThrows ==
    appInits = 0 =>
        /\ "returned" \notin getOutcomes
        /\ \A c \in Calls :
              /\ c.facade = <<>>
              /\ c.sdk = <<>>
              /\ c.outcome = "threw"
              /\ c.thrown = NewError(NotInitializedMessage)

\* a facade operation was attempted through getAuthService before any init
C2_Witness ==
    /\ appInits = 0
    /\ \E c \in Calls : c.src = "get" /\ c.outcome = "threw"

\* C3: a facade operation whose SDK call rejected rejects with a new
\* object {code, message, originalError} whose originalError is the SDK's
\* value and whose code is the SDK error's code, whichever way the facade
\* was obtained, and no SDK function was called twice for it.
C3_RejectionsNormalized ==
    \A c \in Calls :
        (c.outcome = "rejected" /\ c.sdkErr # "none") =>
            /\ c.thrown.originalError = c.sdkErr
            /\ c.thrown.self = "new"
            /\ SdkErr(c.sdkErr).hasCode => c.thrown.code = SdkErr(c.sdkErr).code
            /\ \A j, k \in 1..Len(c.sdk) : c.sdk[j] = c.sdk[k] => j = k

\* C4: getUserFriendlyMessage returns the table's message for a code the
\* table has, whatever the raw message is, and the raw message unchanged
\* for an SDK code the table does not have.
C4_FriendlyMessage ==
    friendly # "unset" =>
        IF code \in DOMAIN messages(variant)
        THEN friendly = messages(variant)[code]
        ELSE friendly = defaultMessage

\* a known code was looked up with a raw message that differs from the
\* table's
C4_Witness ==
    /\ friendly # "unset"
    /\ code = "auth/user-not-found"
    /\ defaultMessage = "Firebase: Error."
    /\ friendly = "No account found with this email"

\* C5: a RegisterForm submission whose two passwords differ invokes no
\* facade operation and no SDK function, dispatches nothing, and leaves
\* the error text "Passwords do not match".
C5_MismatchNeverCallsSdk ==
    \A c \in Calls :
        (c.op = "register" /\ c.mismatch) =>
            /\ c.facade = <<>>
            /\ c.sdk = <<>>
            /\ c.events = <<>>
            /\ error = "Passwords do not match"
            /\ ~loading

\* a registration was submitted with passwords that differ although both
\* are long enough
C5_Witness ==
    \E c \in Calls :
        c.op = "register" /\ c.mismatch /\ c.pwlen >= MinPasswordLength

\* C6: a RegisterForm or ResetPasswordForm submission whose password has
\* fewer than 6 characters invokes no facade operation and no SDK function.
C6_ShortPasswordNoCall ==
    \A c \in Calls :
        (c.op \in {"register", "reset"} /\ c.pwlen < MinPasswordLength) =>
            /\ c.facade = <<>>
            /\ c.sdk = <<>>

\* a short password was submitted with a matching confirmation, after
\* initialization
C6_Witness ==
    /\ appInits > 0
    /\ \E c \in Calls :
          /\ c.op \in {"register", "reset"}
          /\ c.pwlen < MinPasswordLength
          /\ ~c.mismatch
          /\ error = "Password must be at least 6 characters"

\* C7: a LoginForm submission whose signIn resolved dispatched exactly one
\* event, success with the email that was submitted; one that failed
\* dispatched no success; and whenever a submission has settled (signIn
\* resolved, signIn rejected, getAuthService threw) loading is false.
C7_LoginSuccessOnce ==
    \A c \in Calls :
        c.op = "login" =>
            /\ c.outcome = "resolved" => c.events = <<SuccessEvent(c.email)>>
            /\ c.outcome # "resolved" =>
                  \A k \in 1..Len(c.events) : c.events[k].type # "success"
            /\ ~IsPending(c) => ~loading

\* a sign-in through the form succeeded
C7_Witness ==
    \E c \in Calls :
        c.op = "login" /\ c.outcome = "resolved" /\ c.sdk = <<"signInWithEmailAndPassword">>

\* a facade operation the form started is awaiting its SDK call
FacadeCallOutstanding ==
    \E i \in Outstanding("form") : calls[i].pc \in SdkFunctions

\* C8 as stated: in every form loading is true only while a facade call
\* started by the form is outstanding.
C8_LoadingOnlyDuringFacadeCall == loading => FacadeCallOutstanding

\* C8 amended: in LoginForm, RegisterForm, ForgotPasswordForm and
\* ResetPasswordForm loading is true only while a facade call started by
\* the form is outstanding; in the TOTP setup form loading is true only
\* before onMount has run, while its generateTotpSecret call is
\* outstanding, or while its QRCode.toDataURL call is outstanding.
C8_LoadingOnlyWhileAwaiting ==
    loading =>
        \/ FacadeCallOutstanding
        \/ form = "totp" /\ ~mounted
        \/ form = "totp" /\ \E i \in Outstanding("form") :
               calls[i].op = "totp.onMount" /\ calls[i].pc = "QRCode.toDataURL"

\* the TOTP form is rendering the QR code: loading with no facade call
C8_Witness ==
    /\ form = "totp"
    /\ loading
    /\ totpSecret # Null
    /\ ~FacadeCallOutstanding

\* C9: at most one auth-state listener is registered with the SDK, so an
\* auth state change invokes the application's callback at most once.
C9_SingleSubscription == listeners <= 1 /\ lastNotified <= 1

\* C10: once the module's handles are set, no step (no form submission in
\* particular, each of which calls getAuthService and facade operations)
\* changes the app handle or the auth handle.
C10_HandlesStable ==
    [][(firebaseApp # NullHandle /\ auth # NullHandle) =>
          (firebaseApp' = firebaseApp /\ auth' = auth)]_vars

\* in the extended revision, where getAuthService runs initFirebaseAuth
\* again, a form submission went through to the facade
C10_Witness ==
    /\ variant = "extended"
    /\ firebaseApp # NullHandle
    /\ \E c \in Calls : c.owner = "form" /\ c.op = "login" /\ c.facade = <<"signIn">>


\* C11: in MfaChallengeForm with a phone factor selected, a verify attempt
\* calls resolver.resolveSignIn only with a verification id that a
\* successful verifyPhoneNumber returned, and an attempt made with no such
\* id throws, dispatches one error event and calls nothing; in
\* MfaSetupForm's phone flow, enroll is called only with a verification id
\* that a successful verifyPhoneNumber returned.
C11_SendThenVerify ==
    \A c \in Calls :
        /\ (c.op \in {"mfaChallenge.handleVerify", "mfaChallengeEarlier.handleVerifyCode"}
               /\ c.factor = "phone") =>
              IF "resolveSignIn" \in Range(c.sdk)
              THEN c.vid \in 1..smsSent
              ELSE /\ c.sdk = <<>>
                   /\ c.outcome = "threw"
                   /\ c.events = <<ErrorEvent(NewError("Please send verification code first"))>>
        /\ (c.op = "mfaSetup.handleVerifyPhoneCode" /\ "multiFactor.enroll" \in Range(c.sdk)) =>
              c.vid \in 1..smsSent


\* C12: when signIn fails because a second factor is required, the error
\* carried by LoginForm's error event has the code
\* auth/multi-factor-auth-required and a resolver in its resolver field.
C12_MfaErrorHasResolver ==
    \A c \in Calls :
        (c.op = "login" /\ c.sdkErr = "E_mfa") =>
            /\ Len(c.events) = 1
            /\ c.events[1].type = "error"
            /\ c.events[1].error.code = "auth/multi-factor-auth-required"
            /\ c.events[1].error.resolver # Undefined


\* some call the form had outstanding is settled by this step
FormCallSettles ==
    \E i \in Outstanding("form") :
        /\ i <= Len(calls')
        /\ calls'[i].op = calls[i].op
        /\ ~IsPending(calls'[i])

\* C13: while a form is loading with a facade call outstanding, loading
\* becomes false only in a step that settles a call of the form (nothing
\* cancels it and no timer ends it), and a handler that is still waiting
\* has dispatched no event.
C13_LoadingUntilSettled ==
    /\ [][(loading /\ FacadeCallOutstanding /\ ~loading') => FormCallSettles]_vars
    /\ [](\A c \in Calls : (c.owner = "form" /\ IsPending(c)) => c.events = <<>>)

\* a submission of LoginForm or ResetPasswordForm reached the SDK and has
\* settled
C13_Witness ==
    /\ ~loading
    /\ \E c \in Calls :
          c.op \in {"login", "reset"} /\ c.sdk # <<>> /\ c.outcome \in {"resolved", "rejected"}


\* C14: the submit handlers test nothing about loading: a handler invoked
\* while the form is loading starts a further facade call all the same, and
\* whichever call of the form settles sets loading to false, also while
\* another one is still outstanding.
C14_NoInternalGuard ==
    /\ [][(loading /\ Len(calls') = Len(calls) + 1) =>
             /\ IsPending(Last(calls'))
             /\ Len(Last(calls').facade) = 1
             /\ Len(Last(calls').sdk) = 1
             /\ loading']_vars
    /\ [][\A i \in Outstanding("form") :
             (i <= Len(calls') /\ ~IsPending(calls'[i])) => ~loading']_vars

\* LoginForm was submitted twice; one signIn has settled and the form is
\* no longer loading although the other signIn is still outstanding
C14_Witness ==
    /\ form = "login"
    /\ ~loading
    /\ \E i, j \in 1..Len(calls) :
          /\ calls[i].op = "login" /\ calls[i].sdk # <<>> /\ ~IsPending(calls[i])
          /\ calls[j].op = "login" /\ calls[j].pc = "signInWithEmailAndPassword"


\* the submissions of the four submit forms
SubmitOps == {"login", "register", "forgot", "reset"}

\* C15: every step that puts a form into the submitting state clears the
\* error message; while a submission is under way the form is loading and
\* shows no error, whether or not an error was showing when it was made; a
\* submission that succeeded (after an error or not) dispatched success and
\* nothing else; and a form is never in its success state while it shows an
\* error.
C15_FormStateMachine ==
    /\ [][(~loading /\ loading') => error' = NoError]_vars
    /\ [](\A c \in Calls :
            (c.owner = "form" /\ c.op \in SubmitOps) =>
               /\ IsPending(c) => (loading /\ error = NoError /\ Len(c.facade) >= 1)
               /\ c.outcome = "resolved" =>
                    /\ error = NoError
                    /\ Len(c.events) = 1 /\ c.events[1].type = "success")
    /\ [](success => error = NoError)

\* a submission made while an error message was showing has succeeded
C15_Witness ==
    \E c \in Calls :
        c.owner = "form" /\ c.op \in {"forgot", "reset"} /\ c.retry /\ c.outcome = "resolved"


\* C16: a submission of LoginForm, RegisterForm, ForgotPasswordForm or
\* ResetPasswordForm that reached the facade and has settled dispatched
\* exactly one event: success when every facade call resolved, error
\* otherwise; after an error the inline error text is the message of the
\* error the event carries.
C16_OneEventPerSubmission ==
    \A c \in Calls :
        (c.owner = "form" /\ c.op \in SubmitOps /\ c.facade # <<>> /\ ~IsPending(c)) =>
            /\ Len(c.events) = 1
            /\ IF c.outcome = "resolved"
               THEN c.events[1].type = "success"
               ELSE /\ c.events[1].type = "error"
                    /\ c.events[1].error = c.thrown
                    /\ error = c.events[1].error.message

\* a registration whose account was created failed at sendEmailVerification
C16_Witness ==
    \E c \in Calls :
        /\ c.op = "register"
        /\ c.facade = <<"register", "sendEmailVerification">>
        /\ c.outcome = "rejected"
        /\ c.events = <<ErrorEvent(c.thrown)>>


\* C17: the persistence type initFirebaseAuth requests is session
\* persistence for 'session', in-memory persistence for 'none' and local
\* persistence for 'local' or an absent option; and when the SDK's
\* setPersistence fails, initFirebaseAuth has returned its service all the
\* same and the module is initialized.
C17_PersistenceSelected ==
    /\ optionsPersistence # "unset" =>
          persistence = CASE optionsPersistence = "session" -> "browserSessionPersistence"
                          [] optionsPersistence = "none" -> "inMemoryPersistence"
                          [] optionsPersistence \in {"local", "absent"} ->
                                 "browserLocalPersistence"
    /\ appInits > 0 => services # {}
    /\ persistenceStatus = "failed" =>
          /\ ~NotInitialized
          /\ [app |-> firebaseApp, auth |-> auth] \in services

\* the application asked for in-memory persistence and setPersistence failed
C17_Witness ==
    /\ optionsPersistence = "none"
    /\ persistence = "inMemoryPersistence"
    /\ persistenceStatus = "failed"
    /\ services # {}


\* C20: once session or in-memory persistence has been requested, no step
\* other than a further initFirebaseAuth call by the application (no
\* getAuthService call, hence no form submission) requests another
\* persistence type.
C20_PersistenceKept ==
    [][(appInits' = appInits
          /\ persistence \in {"browserSessionPersistence", "inMemoryPersistence"})
         => persistence' = persistence]_vars


\* C18: LoginForm, RegisterForm and ResetPasswordForm navigate (or set
\* the timer that navigates) only when redirectOnSuccess is true, only in a
\* submission whose facade operations all resolved, and only after that
\* submission dispatched its success event; a submission that failed or
\* was rejected by validation never navigates.
C18_RedirectAfterSuccess ==
    /\ \A c \in Calls :
          c.navAt # -1 =>
             /\ redirectOnSuccess
             /\ c.op \in {"login", "register", "reset"}
             /\ c.outcome = "resolved"
             /\ c.navAt >= 1
             /\ c.events[c.navAt].type = "success"
    /\ redirect # "none" =>
          /\ redirectOnSuccess
          /\ \E c \in Calls : c.owner = "form" /\ c.navAt # -1

\* the timer ResetPasswordForm set after a successful reset has fired
C18_Witness ==
    /\ form = "reset"
    /\ redirect = "done"
    /\ \E c \in Calls : c.op = "reset" /\ c.outcome = "resolved" /\ c.navAt = 1


\* C19: MfaSetupForm shows its success panel, and dispatches its success
\* event, only after a factor was enrolled through this component: the
\* phone enroll of handleVerifyPhoneCode resolved, or the enrollTotp of the
\* MfaTotpSetupForm it renders resolved.
C19_SuccessMeansEnrolled ==
    form = "mfaSetup" =>
        /\ setupMode = "success" => enrolled # {}
        /\ \A c \in Calls : c.op = "mfaSetup.handleSuccess" => enrolled # {}

\* the success event was dispatched after a TOTP enrollment made by the
\* child form
C19_Witness ==
    /\ form = "mfaSetup"
    /\ enrolled = {"totp"}
    /\ \E c \in Calls :
          c.op = "mfaSetup.handleSuccess" /\ c.events = <<SuccessEvent("")>>


\* C21: in MfaChallengeForm, a verification id the form comes to hold was
\* issued by a verifyPhoneNumber call made for the hint that is selected
\* when the form receives it.
C21_IdForSelectedHint ==
    [][(form = "mfaChallenge" /\ verificationId' # NoVerificationId
                              /\ verificationId' # verificationId)
        => \E c \in Range(calls') :
              /\ c.op = "mfaChallenge.handleSendPhoneCode"
              /\ c.vid = verificationId'
              /\ c.hint = localSelectedIndex']_vars


\* C22: in the challenge forms, a cancel event is dispatched only when no
\* handler of the form is awaiting verifyPhoneNumber or resolveSignIn (so
\* no success event can follow the cancel from a call made before it).
C22_CancelOnlyWhenIdle ==
    \A j \in 1..Len(calls) :
        calls[j].op \in {"mfaChallenge.cancel", "mfaChallengeEarlier.cancel"}
        => \A i \in 1..(j - 1) : ~(calls[i].owner = "form" /\ IsPending(calls[i]))


\* C23: a RegisterForm submission invokes register first and
\* sendEmailVerification only after every SDK call of register resolved;
\* it dispatches success only after sendEmailVerification resolved too, and
\* when sendEmailVerification rejects (the account exists by then) it
\* dispatches one error event and no success event.
C23_RegisterThenVerify ==
    \A c \in Calls :
        (c.owner = "form" /\ c.op = "register") =>
            /\ c.facade \in {<<>>, <<"register">>, <<"register", "sendEmailVerification">>}
            /\ Len(c.facade) = 2 =>
                  /\ c.sdk # <<>> /\ c.sdk[1] = "createUserWithEmailAndPassword"
                  /\ (c.dn # "" /\ c.dn # Undefined)
                        => Len(c.sdk) >= 2 /\ c.sdk[2] = "updateProfile"
                  /\ c.sdkErr # "none" => Last(c.sdk) = "sendEmailVerification"
            /\ (\E k \in 1..Len(c.events) : c.events[k].type = "success") =>
                  /\ c.outcome = "resolved"
                  /\ c.facade = <<"register", "sendEmailVerification">>
                  /\ Last(c.sdk) = "sendEmailVerification"
            /\ (c.outcome = "rejected" /\ Len(c.facade) = 2) =>
                  c.events = <<ErrorEvent(c.thrown)>>

\* sendEmailVerification rejected after the account was created: one error
\* event, no success
C23_Witness ==
    \E c \in Calls :
        /\ c.owner = "form" /\ c.op = "register"
        /\ c.outcome = "rejected"
        /\ c.sdk = <<"createUserWithEmailAndPassword", "sendEmailVerification">>
        /\ c.sdkErr # "none"
        /\ c.events = <<ErrorEvent(c.thrown)>>
        /\ currentUser = "user"


\* C24: in MfaChallengeForm with a phone factor selected, a request for an
\* SMS code (handleSendPhoneCode) either starts a verifyPhoneNumber call or
\* dispatches an error event; it never ends having done neither.
C24_SendCodeActs ==
    \A c \in Calls :
        (c.op = "mfaChallenge.handleSendPhoneCode" /\ c.factor = "phone")
        => \/ "verifyPhoneNumber" \in Range(c.sdk)
           \/ \E k \in 1..Len(c.events) : c.events[k].type = "error"


\* C25: a RegisterForm or ResetPasswordForm submission that fails
\* validation (passwords differ, or password shorter than 6) made no facade
\* or SDK call and dispatched no event, and it left loading false and the
\* validation message set; the match check comes first, so passwords that
\* differ report "Passwords do not match" whatever their length.
C25_ValidationFailure ==
    \A c \in Calls :
        (c.owner = "form" /\ c.op \in {"register", "reset"}
            /\ (c.mismatch \/ c.pwlen < MinPasswordLength)) =>
            /\ c.outcome = "invalid"
            /\ c.facade = <<>> /\ c.sdk = <<>> /\ c.events = <<>>
            /\ ~loading
            /\ error = IF c.mismatch THEN "Passwords do not match"
                       ELSE "Password must be at least 6 characters"

\* a ResetPasswordForm submission with two different passwords, both
\* shorter than 6 characters
C25_Witness ==
    /\ form = "reset"
    /\ Len(newPassword) < MinPasswordLength
    /\ Len(confirmPassword) < MinPasswordLength
    /\ \E c \in Calls :
          /\ c.op = "reset" /\ c.mismatch /\ c.pwlen = Len(newPassword)
          /\ c.outcome = "invalid"
    /\ error = "Passwords do not match"


\* C26: a LoginForm, RegisterForm, ForgotPasswordForm or ResetPasswordForm
\* submission made before any initFirebaseAuth call does not stay pending:
\* unless validation stopped it, getAuthService threw; and a submission in
\* which getAuthService threw made no facade or SDK call, dispatched
\* exactly one error event carrying the not-initialized error, and left
\* that error's message as the inline error and loading false.
C26_SubmitBeforeInit ==
    \A c \in Calls :
        (c.owner = "form" /\ c.op \in SubmitOps) =>
            /\ appInits = 0 => c.outcome \in {"threw", "invalid"}
            /\ c.outcome = "threw" =>
                  /\ c.thrown = NewError(NotInitializedMessage)
                  /\ c.facade = <<>> /\ c.sdk = <<>>
                  /\ c.events = <<ErrorEvent(c.thrown)>>
                  /\ error = NotInitializedMessage
                  /\ ~loading

\* one of the four forms was submitted before initialization
C26_Witness ==
    /\ appInits = 0
    /\ form \in {"login", "register", "forgot", "reset"}
    /\ \E c \in Calls :
          /\ c.owner = "form" /\ c.op = form
          /\ c.outcome = "threw"
          /\ c.events = <<ErrorEvent(NewError(NotInitializedMessage))>>


\* C27: a register call of the facade awaits updateProfile exactly when
\* createUserWithEmailAndPassword resolved and data.displayName is
\* non-empty, and right after it; when the creation rejected updateProfile
\* is not called; when updateProfile rejected register rejects with a new
\* normalized object whose originalError is the SDK's value.
C27_UpdateProfileAfterCreate ==
    \A c \in Calls :
        (c.facade # <<>> /\ c.facade[1] = "register" /\ c.sdk # <<>>) =>
            LET named == c.dn # "" /\ c.dn # Undefined
                created == Len(c.sdk) >= 2 \/ c.outcome = "resolved" \/ c.pc = "return"
            IN /\ c.sdk[1] = "createUserWithEmailAndPassword"
               /\ "updateProfile" \in Range(c.sdk) <=> (created /\ named)
               /\ "updateProfile" \in Range(c.sdk) => c.sdk[2] = "updateProfile"
               /\ (c.outcome = "rejected" /\ c.sdkErr # "none" /\ Len(c.sdk) = 1)
                     => ~created
               /\ (c.outcome = "rejected" /\ c.sdkErr # "none"
                      /\ Last(c.sdk) = "updateProfile") =>
                     /\ c.thrown.self = "new"
                     /\ c.thrown.originalError = c.sdkErr


\* C28: MfaSetupForm's setupMode changes only along selection->totp,
\* selection->phone, totp->selection, phone->selection, totp->success and
\* phone->success (so success is never left); the step that reaches success
\* is one in which an enrollment has succeeded; and while codeSent is true
\* verificationId is an id a resolved verifyPhoneNumber call returned.
C28_SetupModeTransitions ==
    /\ [][(form = "mfaSetup" /\ setupMode' # setupMode) =>
            /\ <<setupMode, setupMode'>> \in
                  {<<"selection", "totp">>, <<"selection", "phone">>,
                   <<"totp", "selection">>, <<"phone", "selection">>,
                   <<"totp", "success">>, <<"phone", "success">>}
            /\ setupMode' = "success" =>
                  /\ enrolled' # enrolled
                  /\ enrolled' = enrolled \cup {setupMode}]_vars
    /\ [](form = "mfaSetup" /\ codeSent => verificationId \in 1..smsSent)

\* success was reached from the code-entry step of the phone flow
C28_Witness ==
    /\ form = "mfaSetup"
    /\ setupMode = "success"
    /\ codeSent
    /\ verificationId \in 1..smsSent
    /\ enrolled = {"phone"}


UserOps == {"sendEmailVerification", "reloadUser", "generateTotpSecret", "enrollTotp",
            "unenrollMfa"}

\* C29: a sendEmailVerification, reloadUser, generateTotpSecret, enrollTotp
\* or unenrollMfa call made while auth.currentUser is null rejects with
\* Error('No user signed in') and calls no SDK function; getCurrentUser
\* returns at once, without throwing, what auth.currentUser is (a user or
\* null).
C29_NoUserSignedIn ==
    \A c \in Calls :
        /\ (c.facade # <<>> /\ Last(c.facade) \in UserOps /\ c.user = NoUser) =>
              /\ c.outcome = "rejected"
              /\ c.thrown = NewError("No user signed in")
              /\ FirstSdk(Last(c.facade)) \notin Range(c.sdk)
              /\ c.owner = "app" => c.sdk = <<>>
        /\ c.facade = <<"getCurrentUser">> =>
              /\ c.outcome = "resolved"
              /\ c.sdk = <<>>
              /\ c.result = c.user
              /\ c.result \in {Null, "user"}

\* unenrollMfa was called with nobody signed in
C29_Witness ==
    /\ currentUser = NoUser
    /\ \E c \in Calls :
          /\ c.owner = "app" /\ c.facade = <<"unenrollMfa">>
          /\ c.user = NoUser
          /\ c.thrown = NewError("No user signed in")


\* C30: a handleVerify of the TOTP setup form invokes enrollTotp only with
\* the secret generated at mount and a code of at least 6 characters;
\* otherwise it makes no facade or SDK call and dispatches nothing, and the
\* step in which it returns changes no state of the form; and the step in
\* which an enrollment attempt settles leaves finalizing false.
C30_EnrollWithSecretAndCode ==
    /\ [](\A c \in Calls :
            c.op = "totp.handleVerify" =>
               IF c.facade # <<>>
               THEN /\ c.facade = <<"enrollTotp">>
                    /\ c.secret = "secret" /\ c.secret = totpSecret
                    /\ Len(c.code) >= 6
               ELSE /\ c.outcome = "returned"
                    /\ c.sdk = <<>> /\ c.events = <<>>)
    /\ [][(calls' # calls /\ calls' # <<>>
             /\ Last(calls').op = "totp.handleVerify"
             /\ Last(calls').outcome = "returned"
             /\ calls' = Started("form", Last(calls')))
          => UNCHANGED <<loading, finalizing, error, totpSecret, qrCodeDataUrl,
                         verificationCode, success, mounted>>]_vars
    /\ [][\A i \in Outstanding("form") :
             (/\ calls[i].op = "totp.handleVerify"
              /\ Len(calls') = Len(calls)
              /\ calls' = [calls EXCEPT ![i] = calls'[i]]
              /\ ~IsPending(calls'[i]))
             => ~finalizing']_vars

\* a submission with a 5-character code returned at once, and an enrollment
\* attempt was rejected by the SDK, in the same form
C30_Witness ==
    /\ form = "totp"
    /\ ~finalizing
    /\ totpSecret = "secret"
    /\ \E c \in Calls :
          /\ c.op = "totp.handleVerify" /\ c.outcome = "returned"
    /\ \E c \in Calls :
          /\ c.op = "totp.handleVerify" /\ c.outcome = "rejected"
          /\ c.sdk = <<"enroll">> /\ c.secret = "secret" /\ Len(c.code) = 6

====
